---- MODULE Spec2Model ----
(***************************************************************************)
(* The blog API of kasdfjlksafj/blogwebsite: the route handlers of         *)
(* src/app/api/blogs/route.ts (list, create, read, update, delete) over    *)
(* the "blogs" collection, and the admin login handler                     *)
(* (src/unnamed/part_005).                                                 *)
(*                                                                         *)
(* A JSON value is a record [t, s]: t is its JavaScript type and s its     *)
(* characters (a string's characters, a number's digits).  The content of  *)
(* a post is long, so its characters are written as runs <<c, n>>: the     *)
(* character c, n times.  A request body is a record of such values with   *)
(* its own kind: an object, the JSON value null, or text that              *)
(* request.json() cannot parse.                                            *)
(***************************************************************************)
EXTENDS Integers, Sequences, FiniteSets, Bags, TLC

\* Bound: how many ObjectIds the database hands out (documents ever inserted).
MaxDocs == 2

\* Bound: how many times the server clock advances.
MaxClock == 1

\* Words per minute of the read-time estimate.
WordsPerMinute == 200

(***************************************************************************)
(* JSON values                                                             *)
(***************************************************************************)
Undefined == [t |-> "undefined", s |-> <<>>]

Str(chars) == [t |-> "string", s |-> chars]

Num(digits) == [t |-> "number", s |-> digits]

\* JavaScript truthiness, as `!title` and `image || ...` use it.
Truthy(v) ==
  \/ v.t = "string" /\ v.s # <<>>
  \/ v.t = "number" /\ v.s # <<"0">>

\* A content of one word followed by n spaces, in runs.
WordAndSpaces(n) == <<<<"w", 1>>, <<" ", n>>>>

Digit(d) == <<"0", "1", "2", "3", "4", "5", "6", "7", "8", "9">>[d + 1]

\* Number to decimal string, as a template literal prints it.
RECURSIVE ToDecimal(_)
ToDecimal(n) == IF n < 10 THEN <<Digit(n)>> ELSE ToDecimal(n \div 10) \o <<Digit(n % 10)>>

\* content.split(" ").length: one more than the number of separators.
RECURSIVE SplitLength(_)
SplitLength(runs) ==
  IF runs = <<>> THEN 1
  ELSE (IF Head(runs)[1] = " " THEN Head(runs)[2] ELSE 0) + SplitLength(Tail(runs))

CeilDiv(k, d) == (k + d - 1) \div d

ReadTimeRoundsDown(content) ==
  Str(ToDecimal(SplitLength(content.s) \div WordsPerMinute) \o <<" ", "m", "i", "n", " ", "r", "e", "a", "d">>)

\* `${Math.ceil(content.split(" ").length / 200)} min read`
ReadTime(content) ==
  Str(ToDecimal(CeilDiv(SplitLength(content.s), WordsPerMinute)) \o <<" ", "m", "i", "n", " ", "r", "e", "a", "d">>)

\* content.split exists on strings only: any other truthy value throws a TypeError.
SplitThrows(content) == content.t # "string"

\* new Date().toISOString(): fixed width, zero padded (two digits here), so that
\* the strings compare as the instants do.
ToISOString(t) == Str(<<Digit(t \div 10), Digit(t % 10)>>)

DigitValue(c) == CHOOSE d \in 0..9 : Digit(d) = c

\* Binary string comparison, as the database orders string fields.
RECURSIVE StrLess(_, _)
StrLess(a, b) ==
  IF b = <<>> THEN FALSE
  ELSE IF a = <<>> THEN TRUE
  ELSE IF Head(a) # Head(b) THEN DigitValue(Head(a)) < DigitValue(Head(b))
  ELSE StrLess(Tail(a), Tail(b))

(***************************************************************************)
(* Identifiers                                                             *)
(***************************************************************************)
\* An ObjectId is a number 1..MaxDocs; an identifier in a URL is a string: 24 hex
\* digits in either case, or anything else.
HexId(n, upper) == [t |-> "hex24", n |-> n, upper |-> upper]

BadId == [t |-> "other", n |-> 0, upper |-> FALSE]

NoId == [t |-> "none", n |-> 0, upper |-> FALSE]

IdStrings == {HexId(n, FALSE) : n \in 1..MaxDocs} \cup {HexId(1, TRUE), BadId}

IsValidAcceptsAll(id) == TRUE

\* ObjectId.isValid(id)
IsValid(id) == id.t = "hex24"

\* new ObjectId(id): hex digits are read in either case.
ObjectIdOf(id) == id.n

\* _id.toString(): lower-case hex.
IdToString(oid) == HexId(oid, FALSE)

(***************************************************************************)
(* Request bodies                                                          *)
(***************************************************************************)
RequiredFields == {"title", "excerpt", "content", "author", "category"}

BodyA ==
  [kind |-> "object", title |-> Str(<<"A">>), excerpt |-> Str(<<"e">>),
   content |-> Str(WordAndSpaces(WordsPerMinute - 1)), author |-> Str(<<"x">>), category |-> Str(<<"c">>),
   image |-> Str(<<"i">>), status |-> Undefined, _id |-> Undefined]

BodyB ==
  [kind |-> "object", title |-> Str(<<"B">>), excerpt |-> Str(<<"f">>),
   content |-> Str(WordAndSpaces(WordsPerMinute)), author |-> Str(<<"y">>),
   category |-> Str(<<"d">>), image |-> Undefined, status |-> Undefined,
   _id |-> Undefined]

NullBody ==
  [kind |-> "null", title |-> Undefined, excerpt |-> Undefined, content |-> Undefined,
   author |-> Undefined, category |-> Undefined, image |-> Undefined,
   status |-> Undefined, _id |-> Undefined]

UnparseableBody == [NullBody EXCEPT !.kind = "unparseable"]

\* The admin dashboard also sends members the handlers never read: its bulk status
\* change sends { ...blog, status: newStatus }, the blog's _id string included.
Draft == Str(<<"d", "r", "a", "f", "t">>)

\* The body of a bulk status change to draft, made from the listed blog whose _id
\* is the string of ObjectId 2.
StatusChangeBody == [BodyB EXCEPT !.status = Draft, !._id = HexId(2, FALSE)]

Bodies ==
  {BodyA, BodyB, NullBody, UnparseableBody}
    \cup {[BodyA EXCEPT ![f] = v] : f \in RequiredFields, v \in {Undefined, Str(<<>>)}}
    \cup {[BodyA EXCEPT !.content = Num(<<<<"7", 1>>>>)]}
    \cup {[BodyB EXCEPT !.image = Str(<<>>)], StatusChangeBody}

\* await request.json()
JsonThrows(body) == body.kind = "unparseable"

\* const { title, ... } = body: destructuring null throws a TypeError.
DestructureThrows(body) == body.kind = "null"

MissingRequiredSkipsCategory(body) ==
  ~Truthy(body.title) \/ ~Truthy(body.excerpt) \/ ~Truthy(body.content) \/ ~Truthy(body.author)

\* !title || !excerpt || !content || !author || !category
MissingRequired(body) ==
  ~Truthy(body.title) \/ ~Truthy(body.excerpt) \/ ~Truthy(body.content)
    \/ ~Truthy(body.author) \/ ~Truthy(body.category)

DefaultImage == Str(<<"/", "b", "l", "o", "g", "-", "p", "o", "s", "t", "-", "i", "m", "a", "g", "e", ".", "p", "n", "g">>)

\* image || "/blog-post-image.png"
ImageOrDefault(image) == IF Truthy(image) THEN image ELSE DefaultImage

(***************************************************************************)
(* The "blogs" collection                                                  *)
(***************************************************************************)
VARIABLES
  blogs,    \* the documents of db.collection("blogs"), each with its ObjectId _id
  nextId,   \* the next ObjectId the database assigns
  now,      \* the server clock
  req,      \* the request handled last
  res,      \* its response
  ran       \* what its handler did: reached the database, threw

\* The admin pages (BlogHomepage of src/app/page.tsx, AdminPage of
\* src/app/categories/page.tsx) and the AdminDashboard component they render.
VARIABLES
  page,           \* the page the browser shows
  isAdminMode,    \* BlogHomepage's state (AdminPage has none: it is the admin page)
  isLoggedIn,     \* the page's state
  listed,         \* the dashboard's `blogs` state: the ids of the blogs it lists
  loading,        \* the dashboard's state
  submitting,     \* the dashboard's state
  selectedBlogs,  \* the dashboard's state: the ids ticked
  isCreating,     \* the dashboard's state: the form is shown
  editingId,      \* the dashboard's state: the id being edited, 0 for null
  tags,           \* formData.tags
  runs,           \* the bag of async handlers under way, each awaiting its requests
  toast,          \* the toast the last step showed
  blogUpdated     \* the last step called onBlogUpdate()

\* The RichTextEditor component (src/components/rich-text-editor.tsx).  An HTML
\* content is the sequence of its elements, each a tag with its attribute names.
VARIABLES
  editor,          \* the component: not yet mounted, mounted, unmounted
  value,           \* the value prop: the content the parent holds
  innerHTML,       \* editorRef.current.innerHTML
  timers,          \* the timeouts set and neither fired nor cleared
  timeoutRef,      \* timeoutRef.current: the timeout set last
  isImageLoading,  \* insertImage awaits onImageInsert
  showImageDialog, \* the image dialog is open
  imageUrl,        \* the URL entered in the dialog
  imageError,      \* the error the dialog shows, "" for none
  clock,           \* the time, in ms
  called           \* the call of onChange the last step made, NoCall when it made none

\* The ImageUpload component (src/unnamed/part_004).
VARIABLES
  uploading,       \* the state uploading
  preview,         \* the state preview: NoFile for null, else the data URL of a file
  reading,         \* the files whose FileReader has not yet fired its event
  upload,          \* handleFileSelect: its file, where it stands, the response
  uploaded         \* the file whose URL the last step passed to onImageUploaded

\* The list of the public home page (BlogHomepage of src/unnamed/part_006 and of
\* src/app/page.tsx).
VARIABLES
  homeBlogs,       \* the state blogs: the ids of the posts it holds
  homeLoading,     \* the state loading
  homeError,       \* the state error, Null or a message
  homeRuns,        \* the calls of fetchBlogs under way, a bag
  completed        \* the fetchBlogs that ran to its end in the last step, if any

\* The dashboard's list together with the collection it is fetched from, and
\* the requests between the two.
VARIABLES
  collection,      \* the ids of the posts the collection holds
  created,         \* how many posts were ever inserted
  dashBlogs,       \* the dashboard's state blogs: the ids it lists
  dashLoading,     \* the dashboard's state loading
  handlers         \* the calls of the dashboard's handlers under way, a bag

serverVars == <<blogs, nextId, now, req, res, ran>>

syncVars == <<collection, created, dashBlogs, dashLoading, handlers>>

homeVars == <<homeBlogs, homeLoading, homeError, homeRuns, completed>>

uploadVars == <<uploading, preview, reading, upload, uploaded>>

dialogVars == <<showImageDialog, imageUrl, imageError>>

editorVars == <<editor, value, innerHTML, timers, timeoutRef, isImageLoading, clock, called,
                dialogVars>>

pageVars == <<page, isAdminMode, isLoggedIn>>

dashboardVars == <<listed, loading, submitting, selectedBlogs, isCreating, editingId, tags>>

adminVars == <<pageVars, dashboardVars, runs, toast, blogUpdated>>

clientVars == <<adminVars, editorVars, uploadVars, homeVars, syncVars>>

restVars == <<serverVars, editorVars, uploadVars, homeVars, syncVars>>

outsideEditor == <<serverVars, adminVars, uploadVars, homeVars, syncVars>>

outsideUpload == <<serverVars, adminVars, editorVars, homeVars, syncVars>>

outsideHome == <<serverVars, adminVars, editorVars, uploadVars, syncVars>>

outsideSync == <<serverVars, adminVars, editorVars, uploadVars, homeVars>>

vars == <<serverVars, adminVars, editorVars, uploadVars, homeVars, syncVars>>

Ids(coll) == {d._id : d \in coll}

\* find({}).sort({ date: -1 }).toArray(): every document once, dates not increasing;
\* the database leaves the order of equal dates open.
SortAscending(coll) ==
  {l \in [1..Cardinality(coll) -> coll] :
     /\ \A i, j \in DOMAIN l : i # j => l[i] # l[j]
     /\ \A i, j \in DOMAIN l : i < j => ~StrLess(l[j].date.s, l[i].date.s)}

SortByDateDesc(coll) ==
  {l \in [1..Cardinality(coll) -> coll] :
     /\ \A i, j \in DOMAIN l : i # j => l[i] # l[j]
     /\ \A i, j \in DOMAIN l : i < j => ~StrLess(l[i].date.s, l[j].date.s)}

\* insertOne(newBlog): the database assigns the _id.
InsertOne(coll, oid, newBlog) == coll \cup {[newBlog EXCEPT !._id = oid]}

FindOneIgnoresFilter(coll, oid) == coll

\* findOne({ _id })
FindOne(coll, oid) == {d \in coll : d._id = oid}

\* result.matchedCount, result.deletedCount: the documents the filter matches.
MatchedCount(coll, oid) == Cardinality(FindOne(coll, oid))

SetFieldsSetsDate(d, set) ==
  [d EXCEPT !.title = set.title, !.excerpt = set.excerpt, !.content = set.content,
            !.author = set.author, !.category = set.category, !.image = set.image,
            !.readTime = set.readTime, !.updatedAt = set.updatedAt,
            !.date = set.updatedAt]

SetFieldsSetsId(d, set) ==
  [d EXCEPT !._id = set._id, !.title = set.title, !.excerpt = set.excerpt,
            !.content = set.content, !.author = set.author, !.category = set.category,
            !.image = set.image, !.readTime = set.readTime, !.updatedAt = set.updatedAt]

SetFieldsKeepsExcerpt(d, set) ==
  [d EXCEPT !.title = set.title, !.content = set.content,
            !.author = set.author, !.category = set.category, !.image = set.image,
            !.readTime = set.readTime, !.updatedAt = set.updatedAt]

\* { $set: updatedBlog }: the fields of updatedBlog, and no other.
SetFields(d, set) ==
  [d EXCEPT !.title = set.title, !.excerpt = set.excerpt, !.content = set.content,
            !.author = set.author, !.category = set.category, !.image = set.image,
            !.readTime = set.readTime, !.updatedAt = set.updatedAt]

UpdateOneUpserts(coll, oid, set) ==
  IF FindOne(coll, oid) = {}
    THEN coll \cup {[set EXCEPT !._id = oid]}
    ELSE {IF d._id = oid THEN SetFields(d, set) ELSE d : d \in coll}

\* updateOne({ _id }, { $set }): no upsert option.
UpdateOne(coll, oid, set) == {IF d._id = oid THEN SetFields(d, set) ELSE d : d \in coll}

DeleteOneKeeps(coll, oid) == coll

\* deleteOne({ _id })
DeleteOne(coll, oid) == {d \in coll : d._id # oid}

\* { ...blog, _id: blog._id.toString() }
Serialize(d) == [d EXCEPT !._id = IdToString(d._id)]

(***************************************************************************)
(* Responses                                                               *)
(***************************************************************************)
\* NextResponse.json(payload, { status }): json holds the blog or blogs of the
\* payload, error / message / success its other members ("" when absent).
Response(status, json, error, message, success) ==
  [status |-> status, json |-> json, error |-> error, message |-> message, success |-> success]

ErrorResponse(status, error) == Response(status, <<>>, error, "", "")

\* What a handler did: its response, the collection and the id counter it leaves,
\* whether it reached the database (getDatabase()), whether its try block threw.
Outcome(response, coll, idNext, dbCalled, threw) ==
  [res |-> response, blogs |-> coll, nextId |-> idNext, dbCalled |-> dbCalled, threw |-> threw]

CaughtAsBadRequest(error, coll, idNext, dbCalled) ==
  Outcome(ErrorResponse(400, error), coll, idNext, dbCalled, TRUE)

\* catch (error) { console.error(...); return NextResponse.json({ error }, { status: 500 }) }
Caught(error, coll, idNext, dbCalled) ==
  Outcome(ErrorResponse(500, error), coll, idNext, dbCalled, TRUE)

(***************************************************************************)
(* Handlers of /api/blogs                                                  *)
(***************************************************************************)
\* GET /api/blogs; list is what find().sort().toArray() returned.
GETHandler(coll, idNext, dbFails, list) ==
  IF dbFails THEN Caught("Failed to fetch blogs", coll, idNext, TRUE)
  ELSE Outcome(Response(200, [i \in DOMAIN list |-> Serialize(list[i])], "", "", ""),
               coll, idNext, TRUE, FALSE)

NewBlogTakesAuthorForCategory(body, time) ==
  [_id |-> 0, title |-> body.title, excerpt |-> body.excerpt, content |-> body.content,
   author |-> body.author, category |-> body.author,
   image |-> ImageOrDefault(body.image), date |-> ToISOString(time),
   readTime |-> ReadTime(body.content), updatedAt |-> Undefined, status |-> Undefined]

\* const newBlog = { title, ..., image: image || default, date, readTime }
NewBlog(body, time) ==
  [_id |-> 0, title |-> body.title, excerpt |-> body.excerpt, content |-> body.content,
   author |-> body.author, category |-> body.category,
   image |-> ImageOrDefault(body.image), date |-> ToISOString(time),
   readTime |-> ReadTime(body.content), updatedAt |-> Undefined, status |-> Undefined]

\* POST /api/blogs
POSTHandler(coll, idNext, time, body, dbFails) ==
  IF JsonThrows(body) \/ DestructureThrows(body)
    THEN Caught("Failed to create blog", coll, idNext, FALSE)
  ELSE IF MissingRequired(body)
    THEN Outcome(ErrorResponse(400, "Missing required fields"), coll, idNext, FALSE, FALSE)
  ELSE IF dbFails \/ SplitThrows(body.content)
    THEN Caught("Failed to create blog", coll, idNext, TRUE)
  ELSE Outcome(Response(201, <<Serialize([NewBlog(body, time) EXCEPT !._id = idNext])>>, "", "", ""),
               InsertOne(coll, idNext, NewBlog(body, time)), idNext + 1, TRUE, FALSE)

\* GET /api/blogs/{id}
GETByIdHandler(coll, idNext, id, dbFails) ==
  IF ~IsValid(id)
    THEN Outcome(ErrorResponse(400, "Invalid blog ID"), coll, idNext, FALSE, FALSE)
  ELSE IF dbFails
    THEN Caught("Failed to fetch blog", coll, idNext, TRUE)
  ELSE IF FindOne(coll, ObjectIdOf(id)) = {}
    THEN Outcome(ErrorResponse(404, "Blog not found"), coll, idNext, TRUE, FALSE)
  ELSE Outcome(Response(200, <<Serialize(CHOOSE d \in FindOne(coll, ObjectIdOf(id)) : TRUE)>>, "", "", ""),
               coll, idNext, TRUE, FALSE)

\* const updatedBlog = { title, ..., image: image || default, readTime, updatedAt }
UpdatedBlog(body, time) ==
  [_id |-> 0, title |-> body.title, excerpt |-> body.excerpt, content |-> body.content,
   author |-> body.author, category |-> body.category,
   image |-> ImageOrDefault(body.image), date |-> Undefined,
   readTime |-> ReadTime(body.content), updatedAt |-> ToISOString(time),
   status |-> Undefined]

\* PUT /api/blogs/{id}: the body is parsed before the identifier is validated.
PUTHandler(coll, idNext, time, id, body, dbFails) ==
  IF JsonThrows(body)
    THEN Caught("Failed to update blog", coll, idNext, FALSE)
  ELSE IF ~IsValid(id)
    THEN Outcome(ErrorResponse(400, "Invalid blog ID"), coll, idNext, FALSE, FALSE)
  ELSE IF DestructureThrows(body)
    THEN Caught("Failed to update blog", coll, idNext, FALSE)
  ELSE IF MissingRequired(body)
    THEN Outcome(ErrorResponse(400, "Missing required fields"), coll, idNext, FALSE, FALSE)
  ELSE IF dbFails \/ SplitThrows(body.content)
    THEN Caught("Failed to update blog", coll, idNext, TRUE)
  ELSE IF MatchedCount(coll, ObjectIdOf(id)) = 0
    THEN Outcome(ErrorResponse(404, "Blog not found"),
                 UpdateOne(coll, ObjectIdOf(id), UpdatedBlog(body, time)), idNext, TRUE, FALSE)
  ELSE Outcome(Response(200, <<[UpdatedBlog(body, time) EXCEPT !._id = id]>>, "", "", ""),
               UpdateOne(coll, ObjectIdOf(id), UpdatedBlog(body, time)), idNext, TRUE, FALSE)

\* DELETE /api/blogs/{id}
DELETEHandler(coll, idNext, id, dbFails) ==
  IF ~IsValid(id)
    THEN Outcome(ErrorResponse(400, "Invalid blog ID"), coll, idNext, FALSE, FALSE)
  ELSE IF dbFails
    THEN Caught("Failed to delete blog", coll, idNext, TRUE)
  ELSE IF MatchedCount(coll, ObjectIdOf(id)) = 0
    THEN Outcome(ErrorResponse(404, "Blog not found"),
                 DeleteOne(coll, ObjectIdOf(id)), idNext, TRUE, FALSE)
  ELSE Outcome(Response(200, <<>>, "", "Blog deleted successfully", ""),
               DeleteOne(coll, ObjectIdOf(id)), idNext, TRUE, FALSE)

(***************************************************************************)
(* Handler of /api/admin/login                                             *)
(***************************************************************************)
AdminEmail == <<"a", "d", "m", "i", "n", "@", "g", "m", "a", "i", "l", ".", "c", "o", "m">>

AdminPassword == <<"a", "d", "m", "i", "n", "1", "2", "3">>

\* Near misses of the two literals: another case, a missing or added character,
\* the other literal, the empty string, a number, a missing field.
Variants(literal) ==
  {Undefined, Num(<<"7">>), Str(<<>>), Str(literal), Str(<<"A">> \o Tail(literal)),
   Str(Tail(literal)), Str(literal \o <<" ">>), Str(<<" ">> \o literal),
   Str(SubSeq(literal, 1, Len(literal) - 1))}

Emails == Variants(AdminEmail) \cup {Str(AdminPassword)}

Passwords == Variants(AdminPassword) \cup {Str(AdminEmail)}

\* The logins tried between blog requests.
FewEmails == {Str(AdminEmail), Undefined}

FewPasswords == {Str(AdminPassword), Str(AdminEmail)}

CredentialsMatchEither(email, password) ==
  email = Str(AdminEmail) \/ password = Str(AdminPassword)

\* email === "admin@gmail.com" && password === "admin123"
CredentialsMatch(email, password) ==
  email = Str(AdminEmail) /\ password = Str(AdminPassword)

LoginPOSTHandlerRecordsSession(coll, idNext, kind, email, password) ==
  IF kind # "object"
    THEN Caught("Authentication failed", coll, idNext, FALSE)
  ELSE IF CredentialsMatch(email, password)
    THEN Outcome(Response(200, <<>>, "", "Login successful", "true"),
                 {[d EXCEPT !.author = email] : d \in coll}, idNext, FALSE, FALSE)
  ELSE Outcome(Response(401, <<>>, "", "Invalid credentials", "false"), coll, idNext, FALSE, FALSE)

\* POST /api/admin/login
LoginPOSTHandler(coll, idNext, kind, email, password) ==
  IF kind # "object"
    THEN Caught("Authentication failed", coll, idNext, FALSE)
  ELSE IF CredentialsMatch(email, password)
    THEN Outcome(Response(200, <<>>, "", "Login successful", "true"), coll, idNext, FALSE, FALSE)
  ELSE Outcome(Response(401, <<>>, "", "Invalid credentials", "false"), coll, idNext, FALSE, FALSE)

(***************************************************************************)
(* The state machine: one action per request                               *)
(***************************************************************************)
NoBody == [NullBody EXCEPT !.kind = "none"]

Request(op, id, body, email, password) ==
  [op |-> op, id |-> id, body |-> body, email |-> email, password |-> password]

NoRequest == Request("none", NoId, NoBody, Undefined, Undefined)

NoResponse == Response(0, <<>>, "", "", "")

NotRun == [dbCalled |-> FALSE, threw |-> FALSE, dbFails |-> FALSE]

\* toast({ title, description, variant }): title and description of the code, the
\* number N the description prints (0 when it prints none), and whether a request
\* of the handler had been answered with a status that is not OK when it was shown.
\* The variable toast holds the toast the last step showed, NoToast when it
\* showed none.
Toast(title, description, variant, n, failed) ==
  [title |-> title, description |-> description, variant |-> variant, n |-> n, failed |-> failed]

NoToast == Toast("", "", "", 0, FALSE)

\* setTimeout(() => onChange(sanitizeHTML(newValue)), 100), set at time due - 100.
Timer(newValue, due) == [value |-> newValue, due |-> due]

\* timeoutRef.current before any timeout is set.
NoTimer == Timer(<<>>, 0)

\* onChange(sanitized)
Call(sanitized) == [made |-> TRUE, value |-> sanitized]

NoCall == [made |-> FALSE, value |-> <<>>]

\* A call of a handler of the dashboard for the post of the given id (0 for
\* none).  It stands at: "sent", its POST or DELETE is on the way to the server;
\* "served", the response is on the way back; "get sent", the GET of its
\* fetchBlogs is on the way; "get served", the response to that, with the list
\* it carries, is on the way back.
Handler(kind, id, at, list) == [kind |-> kind, id |-> id, at |-> at, list |-> list]

\* error === null
Null == "null"

\* A call of fetchBlogs of the home page: awaiting fetch, or awaiting
\* response.json() of a response that carries the given list.
HomeFetch(phase, data) == [phase |-> phase, data |-> data]

\* A fetchBlogs that ran to its end: whether through the try block, and with which
\* list.
Completed(outcome, data) == [outcome |-> outcome, data |-> data]

NotCompleted == Completed("none", {})

\* No file: preview null, no call of onImageUploaded.
NoFile == 0

\* handleFileSelect for a file: awaiting fetch, awaiting response.json() of a
\* response with the given body, or ended ("succeeded", "failed").
Upload(file, phase, body) == [file |-> file, phase |-> phase, body |-> body]

\* handleFileSelect has not been called.
Idle == Upload(NoFile, "idle", "")

\* A URL typed into the image dialog: whether it is blank, whether new URL(url)
\* parses it, its protocol and the extension of its path in lower case.
Url(blank, parses, protocol, extension) ==
  [blank |-> blank, parses |-> parses, protocol |-> protocol, extension |-> extension]

\* useState("") of imageUrl.
EmptyUrl == Url(TRUE, FALSE, "", "")

Init ==
  /\ blogs = {}
  /\ nextId = 1
  /\ now = 9
  /\ req = NoRequest
  /\ res = NoResponse
  /\ ran = NotRun
  /\ page = "BlogHomepage"
  /\ isAdminMode = FALSE
  /\ isLoggedIn = FALSE
  /\ listed = {}
  /\ loading = TRUE
  /\ submitting = FALSE
  /\ selectedBlogs = {}
  /\ isCreating = FALSE
  /\ editingId = 0
  /\ tags = <<>>
  /\ runs = EmptyBag
  /\ toast = NoToast
  /\ blogUpdated = FALSE
  /\ collection = {}
  /\ created = 0
  /\ dashBlogs = {}
  /\ dashLoading = TRUE
  /\ handlers = SetToBag({Handler("fetchBlogs", 0, "get sent", {})})
  /\ homeBlogs = {}
  /\ homeLoading = TRUE
  /\ homeError = Null
  /\ homeRuns = SetToBag({HomeFetch("fetch", {})})
  /\ completed = NotCompleted
  /\ uploading = FALSE
  /\ preview = NoFile
  /\ reading = {}
  /\ upload = Idle
  /\ uploaded = NoFile
  /\ editor = "none"
  /\ value = <<>>
  /\ innerHTML = <<>>
  /\ timers = {}
  /\ timeoutRef = NoTimer
  /\ isImageLoading = FALSE
  /\ showImageDialog = FALSE
  /\ imageUrl = EmptyUrl
  /\ imageError = ""
  /\ clock = 0
  /\ called = NoCall

\* One request: the handler's outcome becomes the state.  A database failure can
\* only strike a handler that reaches the database, and the database has MaxDocs
\* ids to give.  Each handler makes one database call, which the database applies
\* atomically, so requests are handled one at a time here.
Handle(request, out, dbFails) ==
  /\ req.op = "none"
  /\ dbFails => out.dbCalled
  /\ out.nextId <= MaxDocs + 1
  /\ req' = request
  /\ res' = out.res
  /\ blogs' = out.blogs
  /\ nextId' = out.nextId
  /\ ran' = [dbCalled |-> out.dbCalled, threw |-> out.threw, dbFails |-> dbFails]
  /\ UNCHANGED <<now, clientVars>>

GET ==
  \E dbFails \in BOOLEAN, list \in SortByDateDesc(blogs) :
    Handle(Request("GET", NoId, NoBody, Undefined, Undefined),
           GETHandler(blogs, nextId, dbFails, list), dbFails)

POST ==
  \E body \in Bodies, dbFails \in BOOLEAN :
    Handle(Request("POST", NoId, body, Undefined, Undefined),
           POSTHandler(blogs, nextId, now, body, dbFails), dbFails)

GETById ==
  \E id \in IdStrings, dbFails \in BOOLEAN :
    Handle(Request("GETById", id, NoBody, Undefined, Undefined),
           GETByIdHandler(blogs, nextId, id, dbFails), dbFails)

PUT ==
  \E id \in IdStrings, body \in Bodies, dbFails \in BOOLEAN :
    Handle(Request("PUT", id, body, Undefined, Undefined),
           PUTHandler(blogs, nextId, now, id, body, dbFails), dbFails)

DELETE ==
  \E id \in IdStrings, dbFails \in BOOLEAN :
    Handle(Request("DELETE", id, NoBody, Undefined, Undefined),
           DELETEHandler(blogs, nextId, id, dbFails), dbFails)

LoginPOST(emails, passwords) ==
  \E kind \in {"object", "null", "unparseable"}, email \in emails \cup {Undefined},
     password \in passwords \cup {Undefined} :
    /\ kind # "object" => email = Undefined /\ password = Undefined
    /\ Handle(Request("LoginPOST", NoId, [NullBody EXCEPT !.kind = kind], email, password),
              LoginPOSTHandler(blogs, nextId, kind, email, password), FALSE)

\* The response has been sent: the server is ready for the next request.
Respond ==
  /\ req.op # "none"
  /\ req' = NoRequest
  /\ res' = NoResponse
  /\ ran' = NotRun
  /\ UNCHANGED <<blogs, nextId, now, clientVars>>

\* Time passes between requests.
Tick ==
  /\ req.op = "none"
  /\ now < 9 + MaxClock
  /\ now' = now + 1
  /\ UNCHANGED <<blogs, nextId, req, res, ran, clientVars>>

Next ==
  \/ GET
  \/ POST
  \/ GETById
  \/ PUT
  \/ DELETE
  \/ LoginPOST(FewEmails, FewPasswords)
  \/ Respond
  \/ Tick

Spec == Init /\ [][Next]_vars

\* The login endpoint alone, on every pair of near misses.
NextLogin == LoginPOST(Emails, Passwords) \/ Respond

SpecLogin == Init /\ [][NextLogin]_vars

(***************************************************************************)
(* The admin pages and the dashboard.  A handler of the dashboard that     *)
(* awaits a fetch is a run: it issues its requests, and goes on when they  *)
(* are answered.  What the server answers is the server's business (the    *)
(* handlers above); here an answer is OK or not OK, or the fetch rejects   *)
(* (no answer came).  The code between two awaits runs in one step.        *)
(***************************************************************************)
\* Bound: how many handlers of the dashboard are under way at once.
MaxRuns == 2

\* The ids of the posts the server lists to the dashboard.
PostIds == {1, 2}

\* if (isAdminMode && !isLoggedIn) ... if (isAdminMode && isLoggedIn) ...; on
\* AdminPage: if (!isLoggedIn) ... else the dashboard.
RenderIgnoresLogin(pg, adminMode, loggedIn) ==
  IF pg = "AdminPage" \/ adminMode THEN "AdminDashboard" ELSE "site"

Render(pg, adminMode, loggedIn) ==
  IF pg = "AdminPage" THEN (IF ~loggedIn THEN "AdminLogin" ELSE "AdminDashboard")
  ELSE IF adminMode /\ ~loggedIn THEN "AdminLogin"
  ELSE IF adminMode /\ loggedIn THEN "AdminDashboard"
  ELSE "site"

Rendered == Render(page, isAdminMode, isLoggedIn)

\* fetch(url, { method }): the request of a dashboard handler; id is 0 for /api/blogs.
Fetch(method, id) == [method |-> method, id |-> id]

ListRequest == Fetch("GET", 0)

\* A handler at its first await: the requests it has issued and awaits together,
\* and what it captured when it was called (the method, the number selected).
Run(kind, method, pending, n) ==
  [kind |-> kind, method |-> method, phase |-> "request", pending |-> pending, n |-> n,
   failed |-> FALSE, live |-> TRUE]

AllAnsweredAfterFirst(run) == TRUE

\* await fetch(...), await Promise.all([...]): the handler goes on when every
\* request it awaits is answered.
AllAnswered(run) == run.pending = {}

\* A handler at `await fetchBlogs()` (or fetchBlogs itself): it has issued one
\* more request, GET /api/blogs.
AtFetchBlogs(run) == [run EXCEPT !.phase = "refresh", !.pending = @ \cup {ListRequest}]

\* One handler fewer.
Without(bag, run) == bag (-) SetToBag({run})

\* The component is gone: its handlers go on, their setState calls do nothing.
NotLive(run) == [run EXCEPT !.live = FALSE]

Stale(bag) == BagOfAll(NotLive, bag)

\* useState(...) of AdminDashboard, and useEffect(() => { fetchBlogs() }, []).
Mount ==
  /\ BagCardinality(runs) < MaxRuns
  /\ listed' = {}
  /\ loading' = TRUE
  /\ submitting' = FALSE
  /\ selectedBlogs' = {}
  /\ isCreating' = FALSE
  /\ editingId' = 0
  /\ tags' = <<>>
  /\ runs' = Stale(runs) (+) SetToBag({AtFetchBlogs(Run("fetchBlogs", "GET", {}, 0))})

\* The dashboard is no longer rendered: its state is dropped.
Unmount ==
  /\ listed' = {}
  /\ loading' = TRUE
  /\ submitting' = FALSE
  /\ selectedBlogs' = {}
  /\ isCreating' = FALSE
  /\ editingId' = 0
  /\ tags' = <<>>
  /\ runs' = Stale(runs)

\* The page sets its state and renders again.
Show(pg, adminMode, loggedIn) ==
  /\ page' = pg
  /\ isAdminMode' = adminMode
  /\ isLoggedIn' = loggedIn
  /\ IF Render(pg, adminMode, loggedIn) = "AdminDashboard" /\ Rendered # "AdminDashboard"
       THEN Mount
     ELSE IF Render(pg, adminMode, loggedIn) # "AdminDashboard" /\ Rendered = "AdminDashboard"
       THEN Unmount
     ELSE UNCHANGED <<dashboardVars, runs>>
  /\ toast' = NoToast
  /\ blogUpdated' = FALSE
  /\ UNCHANGED restVars

\* The browser goes to the other page: the page is mounted with its initial state.
Navigate ==
  \E pg \in {"BlogHomepage", "AdminPage"} :
    /\ pg # page
    /\ Show(pg, pg = "AdminPage", FALSE)

\* onClick={() => setIsAdminMode(true)} of the site's Admin button.
ClickAdmin ==
  /\ Rendered = "site"
  /\ Show(page, TRUE, isLoggedIn)

\* onLogin={() => setIsLoggedIn(true)}: the login component calls it.
OnLogin ==
  /\ Rendered = "AdminLogin"
  /\ Show(page, isAdminMode, TRUE)

\* onBack={() => setIsAdminMode(false)}; onBack={() => {}} on AdminPage.
OnBack ==
  /\ Rendered = "AdminLogin"
  /\ Show(page, IF page = "BlogHomepage" THEN FALSE ELSE isAdminMode, isLoggedIn)

\* onLogout: setIsLoggedIn(false), and setIsAdminMode(false) on BlogHomepage.
OnLogout ==
  /\ Rendered = "AdminDashboard"
  /\ Show(page, IF page = "BlogHomepage" THEN FALSE ELSE isAdminMode, FALSE)

Published == Str(<<"p", "u", "b", "l", "i", "s", "h", "e", "d">>)

\* status: blog.status || "published" of a listed blog (fetchBlogs).
ListedStatus(blog) == IF Truthy(blog.status) THEN blog.status ELSE Published

\* tags: blog.tags || [] of a listed blog: no handler of /api/blogs stores tags.
ListedTags == <<>>

\* The white space of String.prototype.trim that a text input can hold.
WhiteSpace == {" ", "\t"}

\* tag.trim(): the tag without the white space at its ends.
RECURSIVE TrimStart(_)
TrimStart(tag) == IF tag # <<>> /\ Head(tag) \in WhiteSpace THEN TrimStart(Tail(tag)) ELSE tag

RECURSIVE TrimEnd(_)
TrimEnd(tag) ==
  IF tag # <<>> /\ tag[Len(tag)] \in WhiteSpace
    THEN TrimEnd(SubSeq(tag, 1, Len(tag) - 1)) ELSE tag

Trim(tag) == TrimEnd(TrimStart(tag))

\* formData.tags.includes(tag)
Includes(list, tag) == \E i \in DOMAIN list : list[i] = tag

AddTagKeepsDuplicates(list, tag) ==
  IF Trim(tag) # <<>> THEN Append(list, Trim(tag)) ELSE list

\* if (tag.trim() && !tags.includes(tag.trim())) tags: [...tags, tag.trim()]
AddTag(list, tag) ==
  IF Trim(tag) # <<>> /\ ~Includes(list, Trim(tag)) THEN Append(list, Trim(tag)) ELSE list

\* tags.filter((tag) => tag !== tagToRemove)
RemoveTag(list, tagToRemove) == SelectSeq(list, LAMBDA tag : tag # tagToRemove)

\* onClick={() => setIsCreating(true)} of New Post.
NewPost ==
  /\ Rendered = "AdminDashboard"
  /\ ~isCreating
  /\ isCreating' = TRUE
  /\ UNCHANGED <<listed, loading, submitting, selectedBlogs, editingId, tags, runs, pageVars, restVars>>
  /\ toast' = NoToast
  /\ blogUpdated' = FALSE

\* handleEdit(blog), from the Edit button of a listed blog.
HandleEdit ==
  \E id \in listed :
    /\ Rendered = "AdminDashboard"
    /\ ~loading
    /\ tags' = ListedTags
    /\ editingId' = id
    /\ isCreating' = TRUE
    /\ toast' = NoToast
    /\ blogUpdated' = FALSE
    /\ UNCHANGED <<listed, loading, submitting, selectedBlogs, runs, pageVars, restVars>>

\* handleCancel, from the form's Cancel button.
HandleCancel ==
  /\ Rendered = "AdminDashboard"
  /\ isCreating
  /\ isCreating' = FALSE
  /\ editingId' = 0
  /\ tags' = <<>>
  /\ toast' = NoToast
  /\ blogUpdated' = FALSE
  /\ UNCHANGED <<listed, loading, submitting, selectedBlogs, runs, pageVars, restVars>>

\* handleAddTag(e.currentTarget.value), on Enter in the form's tag input.
HandleAddTag(inputs) ==
  \E tag \in inputs :
    /\ Rendered = "AdminDashboard"
    /\ isCreating
    /\ tags' = AddTag(tags, tag)
    /\ toast' = NoToast
    /\ blogUpdated' = FALSE
    /\ UNCHANGED <<listed, loading, submitting, selectedBlogs, isCreating, editingId, runs, pageVars, restVars>>

\* handleRemoveTag(tag), from the X of a tag's badge.
HandleRemoveTag ==
  \E i \in DOMAIN tags :
    /\ Rendered = "AdminDashboard"
    /\ isCreating
    /\ tags' = RemoveTag(tags, tags[i])
    /\ toast' = NoToast
    /\ blogUpdated' = FALSE
    /\ UNCHANGED <<listed, loading, submitting, selectedBlogs, isCreating, editingId, runs, pageVars, restVars>>

\* The checkbox of a listed blog.
ToggleSelect ==
  \E id \in listed :
    /\ Rendered = "AdminDashboard"
    /\ ~loading
    /\ selectedBlogs' = IF id \in selectedBlogs THEN selectedBlogs \ {id} ELSE selectedBlogs \cup {id}
    /\ toast' = NoToast
    /\ blogUpdated' = FALSE
    /\ UNCHANGED <<listed, loading, submitting, isCreating, editingId, tags, runs, pageVars, restVars>>

\* The Select All checkbox; filtered is what the search and the filters leave of
\* the list.
SelectAll ==
  \E filtered \in SUBSET listed :
    /\ Rendered = "AdminDashboard"
    /\ selectedBlogs' =
         IF Cardinality(selectedBlogs) = Cardinality(filtered) /\ filtered # {}
           THEN {} ELSE filtered
    /\ toast' = NoToast
    /\ blogUpdated' = FALSE
    /\ UNCHANGED <<listed, loading, submitting, isCreating, editingId, tags, runs, pageVars, restVars>>

\* The handler is called: it runs up to its first await.
Start(run) ==
  /\ Rendered = "AdminDashboard"
  /\ BagCardinality(runs) < MaxRuns
  /\ runs' = runs (+) SetToBag({run})

\* toast of the try block, after the awaited requests.
SuccessToast(run) ==
  IF run.kind = "handleSubmit" /\ run.method = "PUT"
    THEN Toast("Blog updated", "Your blog post has been updated successfully.", "default", 0, run.failed)
  ELSE IF run.kind = "handleSubmit"
    THEN Toast("Blog published", "Your new blog post has been published.", "default", 0, run.failed)
  ELSE IF run.kind = "handleDelete"
    THEN Toast("Blog deleted", "The blog post has been removed.", "default", 0, run.failed)
  ELSE IF run.kind = "handleBulkDelete"
    THEN Toast("Blogs deleted", "N blog posts have been removed.", "default", run.n, run.failed)
  ELSE Toast("Status updated", "N blog posts have been saved as drafts.", "default", run.n, run.failed)

\* toast of the catch block.
ErrorToast(run) ==
  Toast("Error",
        IF run.kind = "handleSubmit" /\ run.method = "PUT" THEN "Failed to update blog"
        ELSE IF run.kind = "handleSubmit" THEN "Failed to create blog"
        ELSE IF run.kind = "handleDelete" THEN "Failed to delete blog"
        ELSE IF run.kind = "handleBulkDelete" THEN "Failed to delete selected blogs"
        ELSE "Failed to update blog status",
        "destructive", 0, run.failed)

\* The awaited requests are answered and nothing was thrown: the success toast,
\* the state updates, then `await fetchBlogs()`, which sets loading and issues
\* GET /api/blogs.
Succeed(run, rest) ==
  /\ toast' = SuccessToast(run)
  /\ blogUpdated' = FALSE
  /\ runs' = rest (+) SetToBag({AtFetchBlogs(run)})
  /\ IF run.live
       THEN /\ loading' = TRUE
            /\ selectedBlogs' =
                 IF run.kind \in {"handleBulkDelete", "handleBulkStatusChange"} THEN {} ELSE selectedBlogs
            /\ editingId' = IF run.kind = "handleSubmit" /\ run.method = "PUT" THEN 0 ELSE editingId
            /\ isCreating' = IF run.kind = "handleSubmit" /\ run.method = "POST" THEN FALSE ELSE isCreating
            /\ tags' = IF run.kind = "handleSubmit" THEN <<>> ELSE tags
            /\ UNCHANGED <<listed, submitting>>
       ELSE UNCHANGED dashboardVars

\* A catch block that cancels the form.
FailCancelsForm(run, rest) ==
  /\ toast' = ErrorToast(run)
  /\ blogUpdated' = FALSE
  /\ runs' = rest
  /\ IF run.live /\ run.kind = "handleSubmit"
       THEN /\ submitting' = FALSE
            /\ isCreating' = FALSE
            /\ editingId' = 0
            /\ tags' = <<>>
            /\ UNCHANGED <<listed, loading, selectedBlogs>>
       ELSE UNCHANGED dashboardVars

\* Something was thrown: the catch block's toast, and finally of handleSubmit.
Fail(run, rest) ==
  /\ toast' = ErrorToast(run)
  /\ blogUpdated' = FALSE
  /\ runs' = rest
  /\ IF run.live /\ run.kind = "handleSubmit"
       THEN submitting' = FALSE /\ UNCHANGED <<listed, loading, selectedBlogs, isCreating, editingId, tags>>
       ELSE UNCHANGED dashboardVars

\* handleSubmit: PUT /api/blogs/{editingId} when editing, POST /api/blogs otherwise.
HandleSubmit ==
  /\ isCreating
  /\ ~submitting
  /\ Start(Run("handleSubmit", IF editingId # 0 THEN "PUT" ELSE "POST",
               {Fetch(IF editingId # 0 THEN "PUT" ELSE "POST", editingId)}, 1))
  /\ submitting' = TRUE
  /\ toast' = NoToast
  /\ blogUpdated' = FALSE
  /\ UNCHANGED <<listed, loading, selectedBlogs, isCreating, editingId, tags, pageVars, restVars>>

\* handleDelete(blog._id), from the Delete button of a listed blog.
HandleDelete ==
  \E id \in listed :
    /\ ~loading
    /\ Start(Run("handleDelete", "DELETE", {Fetch("DELETE", id)}, 1))
    /\ toast' = NoToast
    /\ blogUpdated' = FALSE
    /\ UNCHANGED <<dashboardVars, pageVars, restVars>>

\* handleBulkDelete: Promise.all of one DELETE for each selected id.
HandleBulkDelete ==
  /\ selectedBlogs # {}
  /\ Start(Run("handleBulkDelete", "DELETE", {Fetch("DELETE", id) : id \in selectedBlogs},
               Cardinality(selectedBlogs)))
  /\ toast' = NoToast
  /\ blogUpdated' = FALSE
  /\ UNCHANGED <<dashboardVars, pageVars, restVars>>

\* handleBulkStatusChange(newStatus): Promise.all of one PUT for each selected id
\* that is listed, and Promise.resolve() for the others; with no PUT at all the
\* handler goes on at once.
HandleBulkStatusChange ==
  /\ selectedBlogs # {}
  /\ Rendered = "AdminDashboard"
  /\ BagCardinality(runs) < MaxRuns
  /\ LET run == Run("handleBulkStatusChange", "PUT",
                    {Fetch("PUT", id) : id \in selectedBlogs \cap listed},
                    Cardinality(selectedBlogs))
     IN IF ~AllAnswered(run)
          THEN runs' = runs (+) SetToBag({run}) /\ toast' = NoToast /\ blogUpdated' = FALSE /\ UNCHANGED dashboardVars
          ELSE Succeed(run, runs)
  /\ UNCHANGED <<pageVars, restVars>>

\* A request of a handler is answered, OK or not; the handler goes on when all it
\* awaits are answered.  handleSubmit and handleDelete throw on an answer that is
\* not OK; the bulk handlers do not look at the answers.
Answer ==
  \E run \in BagToSet(runs), ok \in BOOLEAN :
    \E request \in run.pending :
      LET answered == [run EXCEPT !.pending = @ \ {request}, !.failed = @ \/ ~ok]
      IN /\ run.phase = "request"
         /\ IF ~AllAnswered(answered)
              THEN /\ runs' = Without(runs, run) (+) SetToBag({answered})
                   /\ toast' = NoToast /\ blogUpdated' = FALSE /\ UNCHANGED dashboardVars
            ELSE IF ~ok /\ answered.kind \in {"handleSubmit", "handleDelete"}
              THEN Fail(answered, Without(runs, run))
            ELSE Succeed(answered, Without(runs, run))
         /\ UNCHANGED <<pageVars, restVars>>

\* A fetch of a handler rejects: the await throws at once, whatever else the
\* handler awaits (those requests go on, and nothing reads their answers).
Reject ==
  \E run \in BagToSet(runs) :
    /\ run.phase = "request"
    /\ run.pending # {}
    /\ Fail([run EXCEPT !.failed = TRUE, !.pending = {}], Without(runs, run))
    /\ UNCHANGED <<pageVars, restVars>>

\* fetchBlogs ends: setBlogs with the list the server sent, or the toast of its
\* own catch block; finally setLoading(false).  The handler that awaited it goes
\* on to its end: onBlogUpdate(), and finally of handleSubmit.
Refreshed ==
  \E run \in BagToSet(runs), ok \in BOOLEAN, list \in SUBSET PostIds :
    /\ run.phase = "refresh"
    /\ ok \/ list = {}
    /\ blogUpdated' = (run.kind # "fetchBlogs")
    /\ toast' = IF ok THEN NoToast
                ELSE Toast("Error", "Failed to fetch blogs", "destructive", 0, run.failed)
    /\ runs' = Without(runs, run)
    /\ IF run.live
         THEN /\ listed' = IF ok THEN list ELSE listed
              /\ loading' = FALSE
              /\ submitting' = IF run.kind = "handleSubmit" THEN FALSE ELSE submitting
              /\ UNCHANGED <<selectedBlogs, isCreating, editingId, tags>>
         ELSE UNCHANGED dashboardVars
    /\ UNCHANGED <<pageVars, restVars>>

NextAdmin ==
  \/ Navigate
  \/ ClickAdmin
  \/ OnLogin
  \/ OnBack
  \/ OnLogout
  \/ NewPost
  \/ HandleEdit
  \/ HandleCancel
  \/ ToggleSelect
  \/ SelectAll
  \/ HandleSubmit
  \/ HandleDelete
  \/ HandleBulkDelete
  \/ HandleBulkStatusChange
  \/ Answer
  \/ Reject
  \/ Refreshed

SpecAdmin == Init /\ [][NextAdmin]_vars

\* What is typed into the tag input before Enter: nothing, white space, a word
\* with white space before or after it, two words.
TagInputs ==
  {<<>>, <<" ">>, <<"\t", " ">>, <<"a">>, <<" ", "a">>, <<"a", "\t">>, <<" ", "a", " ">>,
   <<"b">>, <<"a", " ", "b">>, <<" ", "a", " ", "b", " ">>}

\* The form of the dashboard alone: its tags, edit, cancel and submit.
NextForm ==
  \/ ClickAdmin
  \/ OnLogin
  \/ OnLogout
  \/ NewPost
  \/ HandleEdit
  \/ HandleCancel
  \/ HandleAddTag(TagInputs)
  \/ HandleRemoveTag
  \/ HandleSubmit
  \/ Answer
  \/ Reject
  \/ Refreshed

SpecForm == Init /\ [][NextForm]_vars

(***************************************************************************)
(* The rich text editor.  The handlers of the component are synchronous    *)
(* but for insertImage, which awaits onImageInsert; a timeout set by       *)
(* debouncedOnChange fires in a step of its own, at or after its due time. *)
(***************************************************************************)
MaxTicks == 6

MaxElements == 2

\* The maxLength prop.
MaxLength == 2

\* The delay of the timeout of debouncedOnChange, in ms.
Delay == 100

AllowedTags == {"p", "br", "strong", "em", "h1", "h2", "h3", "ul", "ol", "li", "img"}

AllowedAttributes == {"style", "src", "alt", "class"}

\* An element: its tag, the names of its attributes, the length of its own text
\* and its child elements.
Element(tag, attributes, text, children) ==
  [tag |-> tag, attributes |-> attributes, text |-> text, children |-> children]

RECURSIVE SanitizeHTML(_)
\* The tree walker rejects an element whose tag is not allowed: it skips the
\* element and its subtree, which stay in the document as they are; it strips the
\* attributes that are not allowed from every element it accepts.
SanitizeHTML(html) ==
  [i \in DOMAIN html |->
     IF html[i].tag \notin AllowedTags
     THEN html[i]
     ELSE [html[i] EXCEPT !.attributes = @ \cap AllowedAttributes,
                          !.children = SanitizeHTML(@)]]

RECURSIVE TextContent(_)
\* The length of textContent.
TextContent(html) ==
  IF html = <<>> THEN 0
  ELSE Head(html).text + TextContent(Head(html).children) + TextContent(Tail(html))

\* imageHtml of insertImage.
ImageHtml == <<Element("img", {"src", "alt", "style", "loading"}, 0, <<>>)>>

\* The text formatHeading gives a heading when nothing is selected.
NewHeading == <<"N", "e", "w", " ", "H", "e", "a", "d", "i", "n", "g">>

\* heading of formatHeading, for level 1.
Heading == <<Element("h1", {"style"}, Len(NewHeading), <<>>)>>

ImageExtensions == {"jpg", "jpeg", "png", "gif", "webp", "svg"}

\* DEFAULT_IMAGE_URL_VALIDATOR, the default of the validateImageUrl prop.
ValidateImageUrl(url) ==
  /\ url.parses
  /\ url.protocol \in {"http:", "https:"}
  /\ url.extension \in ImageExtensions

\* What a user may type into the image dialog.
Urls ==
  { EmptyUrl,
    Url(FALSE, TRUE, "https:", "png"),
    Url(FALSE, TRUE, "javascript:", ""),
    Url(FALSE, FALSE, "", "") }

\* What the browser leaves in the editor after an input event.
Typed ==
  { <<Element("p", {}, 1, <<>>)>>,
    <<Element("p", {"style", "dir"}, 2, <<>>)>>,
    <<Element("p", {}, MaxLength + 1, <<>>)>>,
    <<Element("div", {"dir"}, 1, <<Element("strong", {"onclick"}, 1, <<>>)>>)>> }

ClearTimeout(set, timer) == set \ {timer}

\* debouncedOnChange without its clearTimeout.
DebouncedOnChangeKeepsTimer(set, timer, newValue, time) ==
  set \cup {Timer(newValue, time + Delay)}

\* The timeouts pending after debouncedOnChange(newValue) at the given time.
DebouncedOnChange(set, timer, newValue, time) ==
  ClearTimeout(set, timer) \cup {Timer(newValue, time + Delay)}

\* The editor holds the content and a handler calls debouncedOnChange with it.
Changed(content) ==
  /\ innerHTML' = content
  /\ timers' = DebouncedOnChange(timers, timeoutRef, content, clock)
  /\ timeoutRef' = Timer(content, clock + Delay)

EditorMount ==
  /\ editor = "none"
  /\ editor' = "mounted"
  /\ innerHTML' = SanitizeHTML(value)
  /\ called' = NoCall
  /\ UNCHANGED <<value, timers, timeoutRef, isImageLoading, clock, dialogVars,
                 outsideEditor>>

\* handleInput: an input whose text is longer than maxLength stays in the editor
\* and is not passed on.
HandleInput ==
  /\ editor = "mounted"
  /\ \E content \in Typed :
       IF TextContent(content) > MaxLength
       THEN /\ innerHTML' = content
            /\ UNCHANGED <<timers, timeoutRef>>
       ELSE Changed(content)
  /\ called' = NoCall
  /\ UNCHANGED <<editor, value, isImageLoading, clock, dialogVars,
                 outsideEditor>>

\* formatHeading with an empty selection: insertHtmlAtCursor(heading), then
\* debouncedOnChange with the content of the editor, whatever its length.
FormatHeading ==
  /\ editor = "mounted"
  /\ Len(innerHTML) < MaxElements
  /\ Changed(innerHTML \o SanitizeHTML(Heading))
  /\ called' = NoCall
  /\ UNCHANGED <<editor, value, isImageLoading, clock, dialogVars,
                 outsideEditor>>

\* The image button of the toolbar.
OpenImageDialog ==
  /\ editor = "mounted"
  /\ ~showImageDialog
  /\ showImageDialog' = TRUE
  /\ called' = NoCall
  /\ UNCHANGED <<editor, value, innerHTML, timers, timeoutRef, isImageLoading, clock,
                 imageUrl, imageError, outsideEditor>>

\* The input of the dialog, disabled while insertImage awaits.
SetImageUrl ==
  /\ editor = "mounted"
  /\ showImageDialog
  /\ ~isImageLoading
  /\ \E url \in Urls : url # imageUrl /\ imageUrl' = url
  /\ called' = NoCall
  /\ UNCHANGED <<editor, value, innerHTML, timers, timeoutRef, isImageLoading, clock,
                 showImageDialog, imageError, outsideEditor>>

\* The Cancel button of the dialog, disabled while insertImage awaits.
CancelImageDialog ==
  /\ editor = "mounted"
  /\ showImageDialog
  /\ ~isImageLoading
  /\ showImageDialog' = FALSE
  /\ imageUrl' = EmptyUrl
  /\ imageError' = ""
  /\ called' = NoCall
  /\ UNCHANGED <<editor, value, innerHTML, timers, timeoutRef, isImageLoading, clock,
                 outsideEditor>>

\* insertImage from the construction of imageHtml on.  insertHtmlAtCursor returns
\* false once the editor is gone (editorRef.current is null), and the state of an
\* unmounted component is not set any more.
InsertImageHtml ==
  IF editor = "mounted"
  THEN /\ Len(innerHTML) < MaxElements
       /\ Changed(innerHTML \o SanitizeHTML(ImageHtml))
       /\ imageUrl' = EmptyUrl
       /\ showImageDialog' = FALSE
  ELSE UNCHANGED <<innerHTML, timers, timeoutRef, imageUrl, showImageDialog>>

\* insertImage up to its await, and to its end when no onImageInsert is supplied.
\* The call of validateImageUrl is commented out.
InsertImage ==
  /\ editor = "mounted"
  /\ showImageDialog
  /\ ~imageUrl.blank
  /\ ~isImageLoading
  /\ \E supplied \in BOOLEAN :
       IF supplied
       THEN /\ isImageLoading' = TRUE
            /\ imageError' = ""
            /\ UNCHANGED <<innerHTML, timers, timeoutRef, imageUrl, showImageDialog>>
       ELSE /\ InsertImageHtml
            /\ imageError' = ""
            /\ UNCHANGED isImageLoading
  /\ called' = NoCall
  /\ UNCHANGED <<editor, value, clock, outsideEditor>>

\* insertImage after its await: onImageInsert resolved true or false, or rejected.
ImageValidated ==
  /\ isImageLoading
  /\ \E isValid \in {"true", "false", "rejected"} :
       IF isValid = "true"
       THEN InsertImageHtml /\ UNCHANGED imageError
       ELSE /\ imageError' = IF editor # "mounted" THEN imageError
                             ELSE IF isValid = "false" THEN "Image validation failed"
                             ELSE "Failed to insert image"
            /\ UNCHANGED <<innerHTML, timers, timeoutRef, imageUrl, showImageDialog>>
  /\ isImageLoading' = FALSE
  /\ called' = NoCall
  /\ UNCHANGED <<editor, value, clock, outsideEditor>>

\* A timeout fires: onChange(sanitizeHTML(newValue)); the parent stores the value
\* and renders the editor with it; when sanitizedValue changes by that, its effect
\* writes it into the editor.
Fire ==
  /\ \E timer \in timers :
       /\ clock >= timer.due
       /\ timers' = timers \ {timer}
       /\ called' = Call(SanitizeHTML(timer.value))
       /\ value' = SanitizeHTML(timer.value)
       /\ innerHTML' = IF /\ editor = "mounted"
                          /\ SanitizeHTML(value') # SanitizeHTML(value)
                       THEN SanitizeHTML(value')
                       ELSE innerHTML
  /\ UNCHANGED <<editor, timeoutRef, isImageLoading, clock, dialogVars,
                 outsideEditor>>

\* The cleanup of the effect: clearTimeout(timeoutRef.current).  The state of the
\* component goes with it.
EditorUnmount ==
  /\ editor = "mounted"
  /\ editor' = "unmounted"
  /\ timers' = ClearTimeout(timers, timeoutRef)
  /\ showImageDialog' = FALSE
  /\ imageUrl' = EmptyUrl
  /\ imageError' = ""
  /\ called' = NoCall
  /\ UNCHANGED <<value, innerHTML, timeoutRef, isImageLoading, clock, outsideEditor>>

\* Half the delay passes.
Elapse ==
  /\ clock < MaxTicks * (Delay \div 2)
  /\ clock' = clock + Delay \div 2
  /\ called' = NoCall
  /\ UNCHANGED <<editor, value, innerHTML, timers, timeoutRef, isImageLoading,
                 dialogVars, outsideEditor>>

NextEditor ==
  \/ EditorMount
  \/ HandleInput
  \/ FormatHeading
  \/ OpenImageDialog
  \/ SetImageUrl
  \/ CancelImageDialog
  \/ InsertImage
  \/ ImageValidated
  \/ Fire
  \/ EditorUnmount
  \/ Elapse

SpecEditor == Init /\ [][NextEditor]_vars

(***************************************************************************)
(* The image upload helper.  handleFileSelect starts a FileReader, whose   *)
(* load event sets the preview whenever it fires, and awaits the upload    *)
(* and then the JSON of its response.  The Choose Image button is disabled *)
(* while uploading.                                                        *)
(***************************************************************************)
Files == {1, 2}

\* What the upload endpoint may answer: JSON with success true, JSON with success
\* false, or a body that is no JSON.
UploadBodies == {"success", "failure", "malformed"}

\* handleFileSelect up to await fetch.
HandleFileSelect ==
  /\ ~uploading
  /\ \E file \in Files :
       /\ reading' = reading \cup {file}
       /\ upload' = Upload(file, "fetch", "")
  /\ uploading' = TRUE
  /\ uploaded' = NoFile
  /\ UNCHANGED <<preview, outsideUpload>>

\* reader.onload
ReaderLoad ==
  /\ \E file \in reading :
       /\ reading' = reading \ {file}
       /\ preview' = file
  /\ uploaded' = NoFile
  /\ UNCHANGED <<uploading, upload, outsideUpload>>

\* The reader fails: it has no handler for that.
ReaderError ==
  /\ \E file \in reading : reading' = reading \ {file}
  /\ uploaded' = NoFile
  /\ UNCHANGED <<uploading, preview, upload, outsideUpload>>

\* The else branch and the catch block, with the finally block.
UploadFailed ==
  /\ preview' = NoFile
  /\ uploading' = FALSE
  /\ upload' = [upload EXCEPT !.phase = "failed"]
  /\ uploaded' = NoFile

\* await fetch resolves: handleFileSelect goes on to await response.json().
FetchResolved ==
  /\ upload.phase = "fetch"
  /\ \E body \in UploadBodies : upload' = [upload EXCEPT !.phase = "json", !.body = body]
  /\ uploaded' = NoFile
  /\ UNCHANGED <<uploading, preview, reading, outsideUpload>>

\* await fetch rejects.
FetchRejected ==
  /\ upload.phase = "fetch"
  /\ UploadFailed
  /\ UNCHANGED <<reading, outsideUpload>>

\* await response.json() resolves or rejects, and handleFileSelect runs to its end.
JsonParsed ==
  /\ upload.phase = "json"
  /\ IF upload.body = "success"
     THEN /\ uploaded' = upload.file
          /\ uploading' = FALSE
          /\ upload' = [upload EXCEPT !.phase = "succeeded"]
          /\ UNCHANGED preview
     ELSE UploadFailed
  /\ UNCHANGED <<reading, outsideUpload>>

ClearPreview ==
  /\ preview # NoFile
  /\ preview' = NoFile
  /\ uploaded' = NoFile
  /\ UNCHANGED <<uploading, reading, upload, outsideUpload>>

NextUpload ==
  \/ HandleFileSelect
  \/ ReaderLoad
  \/ ReaderError
  \/ FetchResolved
  \/ FetchRejected
  \/ JsonParsed
  \/ ClearPreview

SpecUpload == Init /\ [][NextUpload]_vars

(***************************************************************************)
(* The list of the home page.  The page calls fetchBlogs when it mounts    *)
(* (the state Init describes), Try Again calls it, and src/app/page.tsx    *)
(* hands it to the dashboard as onBlogUpdate.                              *)
(***************************************************************************)
MaxFetches == 2

\* The lists GET /api/blogs may answer with.
Lists == SUBSET PostIds

\* setBlogs([]) in the catch block.
CatchClearsBlogs(list) == {}

\* The catch block leaves blogs alone.
Catch(list) == list

\* fetchBlogs up to await fetch.
StartFetchBlogs ==
  /\ BagCardinality(homeRuns) < MaxFetches
  /\ homeLoading' = TRUE
  /\ homeRuns' = homeRuns (+) SetToBag({HomeFetch("fetch", {})})
  /\ completed' = NotCompleted
  /\ UNCHANGED <<homeBlogs, homeError, outsideHome>>

\* The button shown in place of the list when loading is false and error is set.
TryAgain ==
  /\ ~homeLoading
  /\ homeError # Null
  /\ StartFetchBlogs

\* The dashboard calls onBlogUpdate (src/app/page.tsx).
OnBlogUpdate == StartFetchBlogs

\* The catch block and the finally block.
HomeFetchFailed(run, message) ==
  /\ homeError' = message
  /\ homeBlogs' = Catch(homeBlogs)
  /\ homeLoading' = FALSE
  /\ homeRuns' = homeRuns (-) SetToBag({run})
  /\ completed' = Completed("failed", {})

\* await fetch resolves: with a response that is OK, fetchBlogs goes on to await
\* response.json(); with one that is not, it throws.
HomeFetchResolved ==
  /\ \E run \in BagToSet(homeRuns) :
       /\ run.phase = "fetch"
       /\ \E ok \in BOOLEAN, data \in Lists :
            IF ok
            THEN /\ homeRuns' = (homeRuns (-) SetToBag({run})) (+)
                                  SetToBag({HomeFetch("json", data)})
                 /\ completed' = NotCompleted
                 /\ UNCHANGED <<homeBlogs, homeLoading, homeError>>
            ELSE /\ data = {}
                 /\ HomeFetchFailed(run, "Failed to fetch blogs")
  /\ UNCHANGED outsideHome

\* await fetch rejects.
HomeFetchRejected ==
  /\ \E run \in BagToSet(homeRuns) :
       /\ run.phase = "fetch"
       /\ HomeFetchFailed(run, "Failed to fetch")
  /\ UNCHANGED outsideHome

\* await response.json() resolves, or rejects for a body that is no JSON, and
\* fetchBlogs runs to its end.
HomeJsonParsed ==
  /\ \E run \in BagToSet(homeRuns) :
       /\ run.phase = "json"
       /\ \E parses \in BOOLEAN :
            IF parses
            THEN /\ homeBlogs' = run.data
                 /\ homeError' = Null
                 /\ homeLoading' = FALSE
                 /\ homeRuns' = homeRuns (-) SetToBag({run})
                 /\ completed' = Completed("ok", run.data)
            ELSE HomeFetchFailed(run, "Unexpected token")
  /\ UNCHANGED outsideHome

NextHome ==
  \/ TryAgain
  \/ OnBlogUpdate
  \/ HomeFetchResolved
  \/ HomeFetchRejected
  \/ HomeJsonParsed

SpecHome == Init /\ [][NextHome]_vars

(***************************************************************************)
(* The dashboard's list and the collection.  The dashboard is the only     *)
(* client and is mounted (the state Init describes: its first fetchBlogs   *)
(* is under way); every request is answered OK, so a DELETE for a post     *)
(* that is gone, which the server answers with 404, is left unserved.      *)
(* Requests reach the server, and responses the dashboard, in any order.   *)
(***************************************************************************)
MaxHandlers == 2

MaxPosts == 2

Swap(bag, handler, next) == (bag (-) SetToBag({handler})) (+) SetToBag({next})

\* handleSubmit for a new post, up to its await of POST /api/blogs.
SubmitNew ==
  /\ \A handler \in BagToSet(handlers) : handler.kind # "handleSubmit"
  /\ BagCardinality(handlers) < MaxHandlers
  /\ handlers' = handlers (+) SetToBag({Handler("handleSubmit", 0, "sent", {})})
  /\ UNCHANGED <<collection, created, dashBlogs, dashLoading, outsideSync>>

\* handleDelete(id) from the Delete button of a listed post, up to its await of
\* DELETE /api/blogs/{id}.
DeleteListed ==
  /\ ~dashLoading
  /\ BagCardinality(handlers) < MaxHandlers
  /\ \E id \in dashBlogs :
       handlers' = handlers (+) SetToBag({Handler("handleDelete", id, "sent", {})})
  /\ UNCHANGED <<collection, created, dashBlogs, dashLoading, outsideSync>>

\* The server's POST: insertOne.
ServePost ==
  /\ created < MaxPosts
  /\ \E handler \in BagToSet(handlers) :
       /\ handler.kind = "handleSubmit"
       /\ handler.at = "sent"
       /\ handlers' = Swap(handlers, handler, [handler EXCEPT !.at = "served"])
  /\ created' = created + 1
  /\ collection' = collection \cup {created + 1}
  /\ UNCHANGED <<dashBlogs, dashLoading, outsideSync>>

\* The server's DELETE: deleteOne.
ServeDelete ==
  /\ \E handler \in BagToSet(handlers) :
       /\ handler.kind = "handleDelete"
       /\ handler.at = "sent"
       /\ handler.id \in collection
       /\ handlers' = Swap(handlers, handler, [handler EXCEPT !.at = "served"])
       /\ collection' = collection \ {handler.id}
  /\ UNCHANGED <<created, dashBlogs, dashLoading, outsideSync>>

\* The server's GET: find({}).toArray().
ServeGet ==
  /\ \E handler \in BagToSet(handlers) :
       /\ handler.at = "get sent"
       /\ handlers' = Swap(handlers, handler,
                           [handler EXCEPT !.at = "get served", !.list = collection])
  /\ UNCHANGED <<collection, created, dashBlogs, dashLoading, outsideSync>>

\* The response to POST or DELETE arrives: the handler goes on to
\* `await fetchBlogs()`, which sets loading and sends GET /api/blogs.
Responded ==
  /\ \E handler \in BagToSet(handlers) :
       /\ handler.at = "served"
       /\ handlers' = Swap(handlers, handler, [handler EXCEPT !.at = "get sent"])
  /\ dashLoading' = TRUE
  /\ UNCHANGED <<collection, created, dashBlogs, outsideSync>>

\* setBlogs(data.map(...)) of fetchBlogs.
SetBlogs(list, data) == data

\* The response to GET arrives: setBlogs, setLoading(false), and the handler ends.
Listed ==
  /\ \E handler \in BagToSet(handlers) :
       /\ handler.at = "get served"
       /\ handlers' = handlers (-) SetToBag({handler})
       /\ dashBlogs' = SetBlogs(dashBlogs, handler.list)
  /\ dashLoading' = FALSE
  /\ UNCHANGED <<collection, created, outsideSync>>

NextSync ==
  \/ SubmitNew
  \/ DeleteListed
  \/ ServePost
  \/ ServeDelete
  \/ ServeGet
  \/ Responded
  \/ Listed

SpecSync == Init /\ [][NextSync]_vars

(***************************************************************************)
(* Claims.  A step of a handler leads from a state with no request         *)
(* (req.op = "none") to the state holding the request and its response, so *)
(* a claim about what a request does to the collection is an action        *)
(* property, and a claim about the response alone an invariant.  The normal *)
(* result of a handler is claimed for the requests whose database call     *)
(* completes; C10 states what happens when it throws.                      *)
(***************************************************************************)
ClientFields == RequiredFields \cup {"image"}

\* The identifier is 24 hex digits: a well-formed database reference.
WellFormed(id) == id.t = "hex24"

\* The identifier names a stored post.
Designates(id, coll) == WellFormed(id) /\ \E d \in coll : d._id = id.n

\* The post an identifier names.
Named(id, coll) == CHOOSE d \in coll : d._id = id.n

\* A stored post as the API returns it: the _id as its lower-case hex string.
AsJson(d) == [d EXCEPT !._id = [t |-> "hex24", n |-> d._id, upper |-> FALSE]]

\* Every required field is a non-empty string.
AllRequiredGiven(body) ==
  /\ body.kind = "object"
  /\ \A f \in RequiredFields : body[f].t = "string" /\ body[f].s # <<>>

\* One required field at least is missing or the empty string.
SomeRequiredMissing(body) ==
  /\ body.kind = "object"
  /\ \E f \in RequiredFields : body[f] = Undefined \/ body[f] = Str(<<>>)

\* A string of the form 'N min read': decimal digits, then " min read".
IsMinRead(v) ==
  /\ v.t = "string"
  /\ Len(v.s) > 9
  /\ SubSeq(v.s, Len(v.s) - 8, Len(v.s)) = <<" ", "m", "i", "n", " ", "r", "e", "a", "d">>
  /\ \A i \in 1..(Len(v.s) - 9) : \E d \in 0..9 : v.s[i] = Digit(d)

\* The instant a stored date string stands for.
RECURSIVE InstantOf(_)
InstantOf(chars) ==
  IF chars = <<>> THEN 0
  ELSE 10 * InstantOf(SubSeq(chars, 1, Len(chars) - 1)) + DigitValue(chars[Len(chars)])

\* C1: a POST whose five required fields are non-empty strings, the database
\* answering, returns 201 with one blog holding the submitted fields, the _id the
\* database assigned (one no stored post had) and a readTime 'N min read', and the
\* collection gains exactly that one document.
C1_CreateReturnsPost ==
  [][(req'.op = "POST" /\ AllRequiredGiven(req'.body) /\ ~ran'.dbFails) =>
       /\ res'.status = 201
       /\ Len(res'.json) = 1
       /\ \A f \in RequiredFields : res'.json[1][f] = req'.body[f]
       /\ Truthy(req'.body.image) => res'.json[1].image = req'.body.image
       /\ WellFormed(res'.json[1]._id)
       /\ ~Designates(res'.json[1]._id, blogs)
       /\ IsMinRead(res'.json[1].readTime)
       /\ Cardinality(blogs') = Cardinality(blogs) + 1
       /\ \E d \in blogs' : blogs' = blogs \cup {d} /\ AsJson(d) = res'.json[1]]_vars

C1_Witness ==
  /\ req.op = "POST"
  /\ res.status = 201
  /\ Cardinality(blogs) = 2
  /\ res.json[1].readTime = Str(<<"2", " ", "m", "i", "n", " ", "r", "e", "a", "d">>)

\* C2: a POST in which one of the five required fields is missing or empty returns
\* 400 and inserts nothing.
C2_MissingFieldRejected ==
  [][(req'.op = "POST" /\ SomeRequiredMissing(req'.body)) =>
       /\ res'.status = 400
       /\ blogs' = blogs
       /\ nextId' = nextId]_vars

C2_Witness ==
  /\ req.op = "POST"
  /\ req.body.category = Str(<<>>)
  /\ res.status = 400
  /\ blogs # {}

\* C3 as stated: GET /api/blogs/{id} with an identifier that names no stored post
\* returns 404.
C3_Original ==
  (req.op = "GETById" /\ ~ran.dbFails /\ ~Designates(req.id, blogs)) => res.status = 404

\* C3 as amended: a well-formed identifier that names no stored post returns 404;
\* an identifier that is not well-formed returns 400.
C3_MissingPostNotFound ==
  (req.op = "GETById" /\ ~ran.dbFails /\ ~Designates(req.id, blogs)) =>
    /\ WellFormed(req.id) => res.status = 404
    /\ ~WellFormed(req.id) => res.status = 400

C3_Witness ==
  /\ req.op = "GETById"
  /\ WellFormed(req.id)
  /\ res.status = 404
  /\ blogs # {}

\* Every stored post but the one the identifier names is as it was.
OthersUntouched(id, before, after) ==
  /\ \A d \in before : d._id # id.n => d \in after
  /\ \A d \in after : d._id # id.n => d \in before

\* The fields of the body that the request gives.
Requested(body) == {f \in ClientFields : body[f] # Undefined}

\* C4 as stated: a successful PUT overwrites exactly the fields given in the
\* request (readTime and updatedAt follow from the update), keeps the _id, alters
\* no field that was not requested and changes no other post.
C4_Original ==
  [][(req'.op = "PUT" /\ res'.status = 200) =>
       /\ Designates(req'.id, blogs) /\ Designates(req'.id, blogs')
       /\ \A f \in Requested(req'.body) :
            Named(req'.id, blogs')[f] = req'.body[f]
       /\ \A f \in (ClientFields \ Requested(req'.body)) \cup {"date"} :
            Named(req'.id, blogs')[f] = Named(req'.id, blogs)[f]
       /\ OthersUntouched(req'.id, blogs, blogs')]_vars

\* C4 as amended: a successful PUT sets title, excerpt, content, author and
\* category to the request's values, image to the request's image or, when the
\* request gives none, to the default image, readTime to the estimate for the new
\* content and updatedAt to the time of the update; a status in the request is not
\* stored; the post keeps its _id and its date, the collection keeps its size, and
\* no other post changes.
C4_UpdateOverwrites ==
  [][(req'.op = "PUT" /\ res'.status = 200) =>
       /\ Designates(req'.id, blogs) /\ Designates(req'.id, blogs')
       /\ \A f \in RequiredFields : Named(req'.id, blogs')[f] = req'.body[f]
       /\ Named(req'.id, blogs').image =
            (IF Truthy(req'.body.image) THEN req'.body.image ELSE DefaultImage)
       /\ IsMinRead(Named(req'.id, blogs').readTime)
       /\ Named(req'.id, blogs').readTime = res'.json[1].readTime
       /\ InstantOf(Named(req'.id, blogs').updatedAt.s) = now
       /\ Named(req'.id, blogs').date = Named(req'.id, blogs).date
       /\ Named(req'.id, blogs').status = Named(req'.id, blogs).status
       /\ Cardinality(blogs') = Cardinality(blogs)
       /\ OthersUntouched(req'.id, blogs, blogs')
       /\ res'.json[1]._id = req'.id]_vars

C4_Witness ==
  /\ req.op = "PUT"
  /\ res.status = 200
  /\ req.body.image = Undefined
  /\ Cardinality(blogs) = 2
  /\ Named(req.id, blogs).updatedAt # Named(req.id, blogs).date

\* The database handed the id out and no stored post has it: the post was deleted.
GoneFrom(oid, idNext, coll) == oid < idNext /\ \A d \in coll : d._id # oid

Gone(oid) == GoneFrom(oid, nextId, blogs)

\* C5: a DELETE answered 200 removes the post it names; a post once gone stays
\* gone; and, the database answering, a GET or a DELETE of a gone post returns 404
\* and the list of GET /api/blogs does not hold it.
C5_DeletedStaysGone ==
  [][/\ (req'.op = "DELETE" /\ res'.status = 200) =>
          Designates(req'.id, blogs) /\ GoneFrom(req'.id.n, nextId', blogs')
     /\ \A oid \in 1..MaxDocs : Gone(oid) => GoneFrom(oid, nextId', blogs')
     /\ (req'.op \in {"GETById", "DELETE"} /\ WellFormed(req'.id) /\ ~ran'.dbFails
           /\ Gone(req'.id.n)) => res'.status = 404
     /\ (req'.op = "GET" /\ ~ran'.dbFails) =>
          \A oid \in 1..MaxDocs :
            Gone(oid) => \A i \in DOMAIN res'.json : res'.json[i]._id.n # oid]_vars

C5_Witness ==
  /\ req.op = "DELETE"
  /\ res.status = 404
  /\ Gone(req.id.n)
  /\ blogs # {}

\* C7: GET /api/blogs, the database answering, returns 200 with every stored post
\* exactly once, each _id as the string of the stored ObjectId, the newest date
\* first, and leaves the collection as it was.
C7_ListNewestFirst ==
  [][(req'.op = "GET" /\ ~ran'.dbFails) =>
       /\ res'.status = 200
       /\ Len(res'.json) = Cardinality(blogs)
       /\ {res'.json[i] : i \in DOMAIN res'.json} = {AsJson(d) : d \in blogs}
       /\ \A i, j \in DOMAIN res'.json :
            i < j => InstantOf(res'.json[i].date.s) >= InstantOf(res'.json[j].date.s)
       /\ blogs' = blogs]_vars

C7_Witness ==
  /\ req.op = "GET"
  /\ Len(res.json) = 2
  /\ InstantOf(res.json[1].date.s) > InstantOf(res.json[2].date.s)
  /\ res.json[1]._id.n = 2

\* C6: a login whose body is an object succeeds, with status 200 and success true,
\* exactly when email is 'admin@gmail.com' and password is 'admin123'; any other
\* pair, a missing member included, gets 401 and success false.
C6_LoginExactPair ==
  (req.op = "LoginPOST" /\ req.body.kind = "object") =>
    IF req.email.t = "string" /\ req.email.s = AdminEmail
       /\ req.password.t = "string" /\ req.password.s = AdminPassword
      THEN res.status = 200 /\ res.success = "true"
      ELSE res.status = 401 /\ res.success = "false"

C6_Witness ==
  /\ req.op = "LoginPOST"
  /\ req.email = Str(AdminEmail)
  /\ req.password = Undefined
  /\ res.status = 401

ById == {"GETById", "PUT", "DELETE"}

\* C8 as stated: GET, PUT and DELETE with an identifier that is not well formed
\* answer 400 whatever the body is, and the database is not reached.
C8_Original ==
  (req.op \in ById /\ ~WellFormed(req.id)) => res.status = 400 /\ ~ran.dbCalled

\* C8 as amended: with an identifier that is not well formed, GET and DELETE
\* answer 400, and PUT answers 400 whenever its body parses as JSON and 500 when it
\* does not (PUT parses the body first); the database is not reached and the
\* collection stays as it was.
C8_MalformedIdRejected ==
  [][(req'.op \in ById /\ ~WellFormed(req'.id)) =>
       /\ res'.status = (IF req'.op = "PUT" /\ req'.body.kind = "unparseable" THEN 500 ELSE 400)
       /\ ~ran'.dbCalled
       /\ blogs' = blogs]_vars

C8_Witness ==
  /\ req.op = "PUT"
  /\ ~WellFormed(req.id)
  /\ req.body.kind = "null"
  /\ res.status = 400
  /\ blogs # {}

\* C9 as stated: PUT or DELETE with a well-formed identifier that names no stored
\* post answers 404 and leaves the collection as it was (read for the requests
\* whose handler does not throw).
C9_Original ==
  [][(req'.op \in {"PUT", "DELETE"} /\ WellFormed(req'.id) /\ ~Designates(req'.id, blogs)
        /\ ~ran'.threw) =>
       res'.status = 404 /\ blogs' = blogs]_vars

\* C9 as amended: with a well-formed identifier that names no stored post, the
\* database answering, DELETE answers 404, and PUT answers 404 when its five
\* required fields are non-empty strings, 400 when one is missing or empty and 500
\* when its handler throws; the collection stays as it was, so PUT creates nothing;
\* and a GET, PUT or DELETE by identifier leaves every post but the one it names
\* untouched and adds none.
C9_NoMatchNotFound ==
  [][/\ (req'.op \in {"PUT", "DELETE"} /\ WellFormed(req'.id) /\ ~Designates(req'.id, blogs)
          /\ ~ran'.dbFails) =>
         /\ (req'.op = "DELETE" \/ AllRequiredGiven(req'.body)) => res'.status = 404
         /\ (req'.op = "PUT" /\ SomeRequiredMissing(req'.body)) => res'.status = 400
         /\ ran'.threw => res'.status = 500
         /\ blogs' = blogs
     /\ (req'.op \in ById /\ WellFormed(req'.id)) =>
         /\ OthersUntouched(req'.id, blogs, blogs')
         /\ Cardinality(blogs') <= Cardinality(blogs)]_vars

C9_Witness ==
  /\ req.op = "PUT"
  /\ res.status = 404
  /\ blogs # {}

\* The try block of the handler throws on this request.
Throws ==
  \/ ran.dbFails
  \/ req.op \in {"POST", "PUT", "LoginPOST"} /\ req.body.kind = "unparseable"
  \/ req.op \in {"POST", "LoginPOST"} /\ req.body.kind = "null"
  \/ req.op = "PUT" /\ req.body.kind = "null" /\ WellFormed(req.id)
  \/ req.op \in {"POST", "PUT"} /\ ran.dbCalled /\ req.body.content.t # "string"

\* C10: in every handler an exception (the body does not parse, the database call
\* throws, a value is not of the type the code uses it as) is answered 500 with an
\* error payload and no blog; 500 is answered for nothing else, 400 only for an
\* identifier that is not well formed or a missing required field, 404 only for an
\* identifier that names no post, 401 only for a login with other credentials; and
\* a request that throws leaves the collection as it was.
C10_ErrorsMapToStatus ==
  [][req'.op # "none" =>
       /\ res'.status \in {200, 201, 400, 401, 404, 500}
       /\ Throws' <=> res'.status = 500
       /\ res'.status = 500 => res'.error # "" /\ res'.json = <<>> /\ ran'.threw
       /\ res'.status = 500 => blogs' = blogs /\ nextId' = nextId
       /\ res'.status = 400 =>
            \/ req'.op \in ById /\ ~WellFormed(req'.id)
            \/ req'.op \in {"POST", "PUT"} /\ SomeRequiredMissing(req'.body)
       /\ res'.status = 404 => req'.op \in ById /\ ~Designates(req'.id, blogs)
       /\ res'.status = 401 =>
            req'.op = "LoginPOST" /\ ~(req'.email = Str(AdminEmail) /\ req'.password = Str(AdminPassword))
       /\ res'.status \in {400, 401, 404} => res'.json = <<>> /\ blogs' = blogs]_vars

C10_Witness ==
  /\ req.op = "POST"
  /\ AllRequiredGiven(req.body)
  /\ ran.dbFails
  /\ res.status = 500
  /\ Cardinality(blogs) = 1

\* C11: the date of a post is written when POST creates it, as the instant of the
\* creation, and no request changes the date of a stored post: after any successful
\* PUT requests the stored date is the one written at creation.
C11_DateSetOnce ==
  [][/\ \A d \in blogs : \A e \in blogs' : e._id = d._id => e.date = d.date
     /\ (req'.op = "POST" /\ res'.status = 201) =>
          \A e \in blogs' : (\A d \in blogs : d._id # e._id) => InstantOf(e.date.s) = now
     /\ req'.op # "POST" => \A e \in blogs' : \E d \in blogs : d._id = e._id]_vars

C11_Witness ==
  /\ req.op = "PUT"
  /\ res.status = 200
  /\ now = 9 + MaxClock
  /\ InstantOf(Named(req.id, blogs).date.s) = 9
  /\ InstantOf(Named(req.id, blogs).updatedAt.s) = now

\* The identifiers of the stored posts.
StoredIds(coll) == {d._id : d \in coll}

\* C12: no two stored posts share an _id, and no request changes the _id of a
\* stored post: a PUT, one whose body carries an _id (another post's even)
\* included, leaves the set of stored identifiers as it was, a DELETE removes the
\* one it names, and a POST adds one identifier the database never gave before.
C12_IdUniqueImmutable ==
  [][/\ \A d \in blogs' : \A e \in blogs' : d._id = e._id => d = e
     /\ Cardinality(StoredIds(blogs')) = Cardinality(blogs')
     /\ req'.op \notin {"POST", "DELETE"} => StoredIds(blogs') = StoredIds(blogs)
     /\ req'.op = "DELETE" =>
          /\ StoredIds(blogs') \subseteq StoredIds(blogs)
          /\ StoredIds(blogs) \ StoredIds(blogs') \subseteq {req'.id.n}
     /\ req'.op = "POST" =>
          /\ StoredIds(blogs) \subseteq StoredIds(blogs')
          /\ \A n \in StoredIds(blogs') \ StoredIds(blogs) : n >= nextId /\ n < nextId'
     /\ (req'.op = "PUT" /\ res'.status = 200) =>
          /\ Named(req'.id, blogs')._id = Named(req'.id, blogs)._id
          /\ Named(req'.id, blogs').title = req'.body.title]_vars

C12_Witness ==
  /\ req.op = "PUT"
  /\ res.status = 200
  /\ req.body._id.t = "hex24"
  /\ req.body._id.n # req.id.n
  /\ Cardinality(blogs) = 2
  /\ Named(req.id, blogs).title = req.body.title

\* The number of " " in a content, written in runs.
RECURSIVE Spaces(_)
Spaces(written) ==
  IF written = <<>> THEN 0
  ELSE (IF written[1][1] = " " THEN written[1][2] ELSE 0) + Spaces(Tail(written))

\* The least N with 200 * N >= k.
LeastMinutes(k) == CHOOSE n \in 0..k : 200 * n >= k /\ (n = 0 \/ 200 * (n - 1) < k)

\* The string 'N min read'.
MinRead(n) == [t |-> "string", s |-> ToDecimal(n) \o <<" ", "m", "i", "n", " ", "r", "e", "a", "d">>]

\* C13: every stored post's content is a string of k >= 1 space-separated segments
\* (one more than its spaces), and its readTime is 'N min read' with N = ceil(k/200)
\* and N >= 1, after every POST and PUT: readTime is never stale.
C13_ReadTimeFollowsContent ==
  \A d \in blogs :
    /\ d.content.t = "string"
    /\ LeastMinutes(Spaces(d.content.s) + 1) >= 1
    /\ d.readTime = MinRead(LeastMinutes(Spaces(d.content.s) + 1))

C13_Witness ==
  /\ req.op = "PUT"
  /\ res.status = 200
  /\ \E d \in blogs :
       /\ d._id = req.id.n
       /\ d.updatedAt # Undefined
       /\ Spaces(d.content.s) + 1 = 201
       /\ d.readTime = MinRead(2)
  /\ \E d \in blogs : Spaces(d.content.s) + 1 = 200 /\ d.readTime = MinRead(1)

\* What the login endpoint answers to a request, told from the request alone.
LoginAnswer(request) ==
  IF request.body.kind # "object" THEN 500
  ELSE IF request.email.t = "string" /\ request.email.s = AdminEmail
          /\ request.password.t = "string" /\ request.password.s = AdminPassword
    THEN 200
  ELSE 401

\* C15: a login, successful or not, reaches no database and leaves the collection,
\* the id counter and the clock as they were; its response is told from its own
\* body, email and password in every server state; and once it is answered the
\* server is in the very state it was in before the login, so every blog request
\* that follows is handled as if no login had preceded it.
C15_LoginChangesNothing ==
  [][/\ req'.op = "LoginPOST" =>
          /\ <<blogs', nextId', now'>> = <<blogs, nextId, now>>
          /\ ~ran'.dbCalled
          /\ res'.status = LoginAnswer(req')
          /\ res'.json = <<>>
          /\ <<req, res, ran>> = <<NoRequest, NoResponse, NotRun>>
     /\ (req.op = "LoginPOST" /\ req'.op # "LoginPOST") =>
          <<blogs', nextId', now', req', res', ran'>> =
            <<blogs, nextId, now, NoRequest, NoResponse, NotRun>>
     /\ req'.op \notin {"none", "LoginPOST"} =>
          <<req, res, ran>> = <<NoRequest, NoResponse, NotRun>>]_vars

C15_Witness ==
  /\ req.op = "LoginPOST"
  /\ res.status = 200
  /\ res.success = "true"
  /\ Cardinality(blogs) = 2
  /\ nextId = MaxDocs + 1

\* The requests of a handler that are in flight.
InFlight(run) == run.pending

\* The handlers under way.
UnderWay == {run \in DOMAIN runs : runs[run] > 0}

\* C14 as stated: at no time are two requests of the dashboard in flight (counting
\* the requests of the handlers of the dashboard that is rendered).
C14_Original ==
  /\ \A run \in UnderWay : run.live => Cardinality(InFlight(run)) <= 1 /\ runs[run] <= 1
  /\ \A a \in UnderWay : \A b \in UnderWay :
       (a.live /\ b.live) => a = b \/ InFlight(a) = {} \/ InFlight(b) = {}

\* C14 as amended: a submit or a single delete has one request in flight at a time
\* (its POST, PUT or DELETE, then its list refresh); a bulk delete or bulk status
\* change has up to one request per selected post in flight at once (all DELETE, or
\* all PUT, each for another post); the list refresh of a handler is in flight only
\* when every other request of that handler has been answered.  Handlers are not
\* serialized against each other.
C14_OneAwaitAtATime ==
  \A run \in UnderWay :
    /\ InFlight(run) # {}
    /\ run.phase = "refresh" <=> [method |-> "GET", id |-> 0] \in InFlight(run)
    /\ run.phase = "refresh" => Cardinality(InFlight(run)) = 1
    /\ run.kind = "fetchBlogs" => run.phase = "refresh"
    /\ run.kind \in {"handleSubmit", "handleDelete"} => Cardinality(InFlight(run)) = 1
    /\ run.phase = "request" =>
         /\ Cardinality(InFlight(run)) <= run.n
         /\ Cardinality({r.id : r \in InFlight(run)}) = Cardinality(InFlight(run))
         /\ \A r \in InFlight(run) :
              r.method = (CASE run.kind = "handleSubmit" -> run.method
                            [] run.kind \in {"handleDelete", "handleBulkDelete"} -> "DELETE"
                            [] OTHER -> "PUT")

C14_Witness ==
  \E a \in UnderWay : \E b \in UnderWay :
    /\ a.kind = "handleBulkDelete" /\ Cardinality(InFlight(a)) = 2
    /\ b.kind = "handleBulkStatusChange" /\ b.phase = "refresh"

\* The dashboard shows signs of life: a handler of the rendered dashboard is under
\* way, or its state is not what a dashboard never rendered has.
DashboardAlive ==
  \/ \E run \in UnderWay : run.live
  \/ ~loading \/ submitting \/ isCreating \/ editingId # 0
  \/ listed # {} \/ selectedBlogs # {} \/ tags # <<>>

\* The login component is what the page shows.
LoginShown == ~isLoggedIn /\ (page = "AdminPage" \/ isAdminMode)

\* C16: the page starts logged out; the dashboard is rendered, and shows signs of
\* life, only while isLoggedIn holds; isLoggedIn becomes true only in a step taken
\* while the login component is shown (its onLogin); and when isLoggedIn becomes
\* false (Logout, or the page is left) the dashboard is gone: it is rendered again
\* only after isLoggedIn has become true again.
C16_DashboardBehindLogin ==
  /\ ~isLoggedIn /\ ~DashboardAlive
  /\ [][/\ DashboardAlive' => isLoggedIn'
        /\ Rendered' = "AdminDashboard" => isLoggedIn'
        /\ (~isLoggedIn /\ isLoggedIn') => LoginShown /\ page' = page
        /\ page' # page => ~isLoggedIn'
        /\ ~isLoggedIn' => Rendered' # "AdminDashboard" /\ ~DashboardAlive']_vars

C16_Witness ==
  /\ page = "AdminPage"
  /\ isLoggedIn
  /\ Rendered = "AdminDashboard"
  /\ \E run \in UnderWay : run.live /\ run.kind = "handleDelete"
  /\ \E run \in UnderWay : ~run.live

\* A toast of a try block: it reports that the action was done.
ReportsSuccess(t) == t.title # "" /\ t.variant # "destructive"

\* C17 as stated: when a request issued by an action has failed, by a thrown error
\* or by an answer that is not OK, the toast the action shows is an error toast,
\* never a success toast; a bulk delete reports 'N blog posts have been removed'
\* only if none of its DELETE requests failed.
C17_FailureShowsError ==
  /\ toast.failed => ~ReportsSuccess(toast)
  /\ toast.title = "Blogs deleted" => ~toast.failed

\* C18 as stated: when the PUT of a bulk status change (a body made of the listed
\* blog and status: newStatus) is answered 200, the post is stored with that
\* status, so that the list the dashboard fetches next shows it.
C18_StatusChangePersisted ==
  [][(req'.op = "PUT" /\ res'.status = 200 /\ req'.body.status.t = "string") =>
       /\ Named(req'.id, blogs').status = req'.body.status
       /\ ListedStatus(AsJson(Named(req'.id, blogs'))) = req'.body.status]_vars

\* How often a tag occurs in a list of tags.
Occurrences(list, tag) == Cardinality({i \in DOMAIN list : list[i] = tag})

\* A tag with a character that is not white space, and none at its ends that is.
NonBlankTrimmed(tag) ==
  /\ \E i \in DOMAIN tag : tag[i] \notin {" ", "\t"}
  /\ tag[1] \notin {" ", "\t"}
  /\ tag[Len(tag)] \notin {" ", "\t"}

\* The list without every occurrence of a tag, the order kept.
RECURSIVE Minus(_, _)
Minus(list, tag) ==
  IF list = <<>> THEN <<>>
  ELSE IF Head(list) = tag THEN Minus(Tail(list), tag)
  ELSE <<Head(list)>> \o Minus(Tail(list), tag)

\* C19: formData.tags never holds a tag twice, nor an empty or white-space-only
\* tag, and every tag in it is trimmed, whatever handleAddTag, handleRemoveTag,
\* handleEdit, handleCancel and submit have done; and each step that changes the
\* tags empties them (cancel, edit, a finished submit), appends one tag that was
\* not among them, or removes one tag t and leaves no occurrence of t.
C19_TagsAreASet ==
  /\ \A i \in DOMAIN tags : Occurrences(tags, tags[i]) = 1 /\ NonBlankTrimmed(tags[i])
  /\ [][tags' # tags =>
          \/ tags' = <<>>
          \/ /\ Len(tags') = Len(tags) + 1
             /\ SubSeq(tags', 1, Len(tags)) = tags
             /\ Occurrences(tags, tags'[Len(tags')]) = 0
             /\ NonBlankTrimmed(tags'[Len(tags')])
             /\ Occurrences(tags', tags'[Len(tags')]) = 1
          \/ \E i \in DOMAIN tags :
               tags' = Minus(tags, tags[i]) /\ Occurrences(tags', tags[i]) = 0]_vars

C19_Witness ==
  /\ Len(tags) = 2
  /\ tags[1] = <<"a", " ", "b">>
  /\ tags[2] = <<"a">>
  /\ editingId # 0
  /\ submitting

\* The most recent change: the content debouncedOnChange was last called with
\* and the time of that call.
LastChange == [content |-> timeoutRef.value, at |-> timeoutRef.due - Delay]

\* C20 as stated: onChange carries the content of the most recent change.
C20_Original ==
  called.made => called.value = LastChange.content

\* C20: onChange is debounced.  At most one timeout is pending at a time; onChange
\* is called only when 100 ms have passed since the most recent change, and then
\* with the sanitized content of that change; an unmounted editor never calls it.
C20_Debounced ==
  /\ Cardinality(timers) <= 1
  /\ called.made =>
       /\ clock - LastChange.at >= 100
       /\ called.value = SanitizeHTML(LastChange.content)
       /\ editor # "unmounted"

\* The editor calls onChange for a typed paragraph followed by an inserted image,
\* a content that sanitizing changed.
C20_Witness ==
  /\ called.made
  /\ called.value # LastChange.content
  /\ Len(LastChange.content) = MaxElements
  /\ LastChange.content[MaxElements].tag = "img"
  /\ editor = "mounted"

RECURSIVE Whitelisted(_)
\* No element of the tree, at any depth, has a tag outside the whitelist or an
\* attribute outside the whitelist.
Whitelisted(html) ==
  \A i \in DOMAIN html :
    /\ html[i].tag \in {"p", "br", "strong", "em", "h1", "h2", "h3", "ul", "ol", "li", "img"}
    /\ html[i].attributes \subseteq {"style", "src", "alt", "class"}
    /\ Whitelisted(html[i].children)

\* C21: every value the editor passes to onChange, an output of sanitizeHTML, has
\* only whitelisted tags and whitelisted attributes at every nesting depth.
C21_OnChangeWhitelisted ==
  called.made => Whitelisted(called.value)

\* C22: no value delivered through onChange has a text longer than maxLength.
C22_WithinMaxLength ==
  called.made => TextContent(called.value) <= MaxLength

\* The number of images at the top of a content.
Images(html) == Cardinality({i \in DOMAIN html : html[i].tag = "img"})

\* C23: insertImage puts an image into the editor only for a URL that passes
\* validateImageUrl; an insertImage that ends without inserting leaves the dialog
\* open with imageError set.
C23_ImageInsertedOnlyIfValid ==
  [][/\ (~called'.made /\ Images(innerHTML') > Images(innerHTML))
          => ValidateImageUrl(imageUrl)
     /\ (editor' = "mounted" /\ isImageLoading /\ ~isImageLoading'
           /\ Images(innerHTML') = Images(innerHTML))
          => (imageError' # "" /\ showImageDialog')]_vars

\* C24: onImageUploaded is called exactly when the response reports success, with
\* the URL of the upload; after a failed upload the preview is null as long as no
\* other file is chosen; uploading is false whenever handleFileSelect has ended.
C24_UploadOutcome ==
  [][/\ upload'.phase = "failed" => preview' = NoFile
     /\ upload'.phase \in {"succeeded", "failed"} => ~uploading'
     /\ uploaded' # NoFile => (upload'.phase = "succeeded" /\ uploaded' = upload'.file)
     /\ (upload.phase = "json" /\ upload.body = "success" /\ upload'.phase # "json")
          => uploaded' = upload.file]_vars

\* C25: a fetchBlogs of the home page that runs to its end leaves loading false;
\* when it succeeded, blogs is the list of the response and error is null; when it
\* failed, error is a message and blogs is what it was; Try Again, offered only
\* with an error shown, starts a fetch.
C25_FetchSetsStateByOutcome ==
  [][/\ completed'.outcome # "none" => ~homeLoading'
     /\ completed'.outcome = "ok" =>
          (homeBlogs' = completed'.data /\ homeError' = "null")
     /\ completed'.outcome = "failed" =>
          (homeError' # "null" /\ homeBlogs' = homeBlogs)
     /\ (~homeLoading /\ homeLoading') =>
          BagCardinality(homeRuns') = BagCardinality(homeRuns) + 1]_vars

\* A fetch fails with posts listed, while a fetch started later is under way.
C25_Witness ==
  /\ completed.outcome = "failed"
  /\ homeBlogs # {}
  /\ homeRuns # EmptyBag

\* C26: in every state of the dashboard a post is in edit mode only with the form
\* shown: editingId is set only if isCreating holds.
C26_EditingOnlyWhileCreating ==
  (Rendered = "AdminDashboard" /\ editingId # 0) => isCreating

\* C27: with every request of the dashboard answered, the dashboard lists exactly
\* the posts the collection holds.
C27_ListIsCollection ==
  handlers = EmptyBag => dashBlogs = collection

\* C28: when the PUT or POST of a handleSubmit of the dashboard shown fails, the
\* handler ends there: the form (its tags), editingId and isCreating stay as they
\* are, no list refresh is issued (the handler is no longer under way, loading is
\* as it was), onBlogUpdate is not called, submitting is false, and the toast is
\* the error toast.
C28_FailedSubmitKeepsForm ==
  [][\A run \in BagToSet(runs) :
       (/\ run.kind = "handleSubmit"
        /\ run.phase = "request"
        /\ run.live
        /\ runs' = runs (-) SetToBag({run}))
       => /\ tags' = tags
          /\ editingId' = editingId
          /\ isCreating' = isCreating
          /\ loading' = loading
          /\ ~blogUpdated'
          /\ ~submitting'
          /\ toast'.variant = "destructive"]_vars

\* The PUT of a submit failed: the error toast is shown with the post still in
\* edit mode, its tags in the form, and the Submit button enabled again.
C28_Witness ==
  /\ toast.description = "Failed to update blog"
  /\ Rendered = "AdminDashboard"
  /\ editingId # 0
  /\ isCreating
  /\ tags # <<>>
  /\ ~submitting
  /\ runs = EmptyBag

\* The handlers that await fetchBlogs() once their request succeeded and are now
\* at that await.
Refreshing(bag) ==
  {run \in BagToSet(bag) : run.phase = "refresh" /\ run.kind # "fetchBlogs"}

\* C29: a step calls onBlogUpdate exactly when it ends the re-fetch of a handler
\* whose request succeeded, be the re-fetch answered OK or not; and when the
\* re-fetch of a successful submit of the dashboard shown starts, the form is
\* reset (its tags are empty) and editingId is null.
C29_RefetchThenUpdate ==
  [][/\ blogUpdated' <=>
          \E run \in Refreshing(runs) : runs' = runs (-) SetToBag({run})
     /\ \A run \in BagToSet(runs) :
          (/\ run.kind = "handleSubmit"
           /\ run.phase = "request"
           /\ run.live
           /\ \E next \in Refreshing(runs') :
                /\ next.kind = "handleSubmit"
                /\ next.live
                /\ runs' (-) SetToBag({next}) = runs (-) SetToBag({run}))
          => (tags' = <<>> /\ editingId' = 0)]_vars

====
